---- MODULE Spec2Model ----
(***************************************************************************)
(* State-machine model of askr: run() in main.rs, the raw-mode line editor *)
(* (ui/interactive.rs), the choice menu (ui/choice_menu.rs) and the        *)
(* validators they consult (validation/).                                  *)
(*                                                                         *)
(* Strings are tuples of one-character strings.  Option<T> is the empty    *)
(* tuple (None) or a one-element tuple (Some(x)).                          *)
(***************************************************************************)
EXTENDS Integers, Sequences, FiniteSets, TLC

\* ------------------------------------------------------------------ bounds
\* longest buffer the model lets the user type
MaxLen == 3
\* largest --max-attempts value explored; also the cap on counted failures
\* when no ceiling is configured
MaxAttemptsCfg == 2
\* the --timeout value (seconds) explored besides "not configured"
CfgTimeout == 2
\* total session time (seconds) tracked
MaxElapsed == 2

\* ------------------------------------------------------- program constants
DefaultTimeoutSecs == 300
MenuTimeoutSecs == 300
MaskGlyph == "*"
Comma == ","

\* -------------------------------------------------------------- Option<T>
None == << >>
Some(x) == << x >>
IsSome(o) == o # << >>
Unwrap(o) == o[1]
UnwrapOr(o, d) == IF o = << >> THEN d ELSE o[1]

\* ------------------------------------------------------------ characters
\* characters the modelled user can type into the line editor
TypeChars == {"a", " "}
IsWhitespace(c) == c = " "

\* ---------------------------------------------------------------- strings
RECURSIVE TrimStart(_)
TrimStart(s) ==
    IF s = << >> THEN << >>
    ELSE IF IsWhitespace(Head(s)) THEN TrimStart(Tail(s)) ELSE s

RECURSIVE TrimEnd(_)
TrimEnd(s) ==
    IF s = << >> THEN << >>
    ELSE IF IsWhitespace(s[Len(s)]) THEN TrimEnd(SubSeq(s, 1, Len(s) - 1)) ELSE s

\* str::trim
Trim(s) == TrimEnd(TrimStart(s))

\* str::split(sep) for a one-character separator: always at least one piece
RECURSIVE SplitAcc(_, _, _)
SplitAcc(s, sep, cur) ==
    IF s = << >> THEN << cur >>
    ELSE IF Head(s) = sep THEN << cur >> \o SplitAcc(Tail(s), sep, << >>)
    ELSE SplitAcc(Tail(s), sep, Append(cur, Head(s)))

Split(s, sep) == SplitAcc(s, sep, << >>)

\* [String]::join(sep)
RECURSIVE Join(_, _)
Join(parts, sep) ==
    IF parts = << >> THEN << >>
    ELSE IF Len(parts) = 1 THEN parts[1]
    ELSE parts[1] \o sep \o Join(Tail(parts), sep)

\* char::to_lowercase on the letters the model uses
LowerChar(c) ==
    CASE c = "R" -> "r" [] c = "G" -> "g" [] c = "E" -> "e" [] c = "D" -> "d"
      [] OTHER -> c
ToLowercase(s) == [i \in 1..Len(s) |-> LowerChar(s[i])]

\* "*".repeat(n)
Repeat(c, n) == [i \in 1..n |-> c]

\* Vec::insert / Vec::remove / Vec::drain on 0-based positions
\* variant: the character goes to the end of the buffer
InsertAt_Append(s, pos, c) == Append(s, c)

InsertAt(s, pos, c) == SubSeq(s, 1, pos) \o << c >> \o SubSeq(s, pos + 1, Len(s))
RemoveAt(s, pos) == SubSeq(s, 1, pos) \o SubSeq(s, pos + 2, Len(s))
Drain(s, from, to) == SubSeq(s, 1, from) \o SubSeq(s, to + 1, Len(s))

\* ------------------------------------------------------------- Priority
Critical == 0
High == 1
Medium == 2
Low == 3
Priorities == {Critical, High, Medium, Low}

\* ---------------------------------------------------- messages (format!)
Msg(fmt, nums, strs) == [fmt |-> fmt, nums |-> nums, strs |-> strs]

\* ------------------------------------------------------ ValidationResult
success(rule_name) ==
    [rule_name |-> rule_name, passed |-> TRUE, priority |-> Medium, message |-> None]

success_with_priority(rule_name, priority) ==
    [rule_name |-> rule_name, passed |-> TRUE, priority |-> priority, message |-> None]

failure(rule_name, priority, message) ==
    [rule_name |-> rule_name, passed |-> FALSE, priority |-> priority,
     message |-> Some(message)]

\* --------------------------------------------------- CLI args -> config
NoParams == [k \in {} |-> 0]
ParamGet(p, k) == IF k \in DOMAIN p THEN Some(p[k]) ELSE None

RuleConfig(kind, n, choices, priority, parameters) ==
    [validator_type |-> kind, n |-> n, choices |-> choices,
     priority |-> priority, custom_message |-> None, parameters |-> parameters]

\* the rule of a --pattern option: ValidatorType::Pattern carries the pattern
PatternRule(pattern, priority) ==
    RuleConfig("Pattern", 0, << >>, priority, NoParams) @@ [pattern |-> pattern]

\* variant: without --max-choices a single selection is allowed
DefaultMaxChoices_AlwaysOne(a) == UnwrapOr(a.max_choices, 1)

\* the max_choices default of build_validation_rules
DefaultMaxChoices(a) ==
    IF IsSome(a.max_choices) THEN Unwrap(a.max_choices)
    ELSE IF IsSome(a.min_choices) THEN Len(Unwrap(a.choices))
    ELSE 1

ChoiceParameters(a) ==
    [case_sensitive |-> a.choices_case_sensitive,
     min_choices |-> UnwrapOr(a.min_choices, 1),
     max_choices |-> DefaultMaxChoices(a),
     selection_separator |-> UnwrapOr(a.selection_separator, << Comma >>)]

build_validation_rules(a) ==
    (IF a.required
        THEN << RuleConfig("Required", 0, << >>, a.required_priority, NoParams) >>
        ELSE << >>)
    \o (IF IsSome(a.min_length)
        THEN << RuleConfig("MinLength", Unwrap(a.min_length), << >>,
                           a.length_priority, NoParams) >>
        ELSE << >>)
    \o (IF IsSome(a.max_length)
        THEN << RuleConfig("MaxLength", Unwrap(a.max_length), << >>,
                           a.length_priority, NoParams) >>
        ELSE << >>)
    \o (IF IsSome(a.pattern)
        THEN << PatternRule(Unwrap(a.pattern), a.pattern_priority) >>
        ELSE << >>)
    \o (IF IsSome(a.choices)
        THEN << RuleConfig("Choices", 0, Unwrap(a.choices),
                           a.format_priority, ChoiceParameters(a)) >>
        ELSE << >>)

\* ------------------------------------------------------------ validators
Validator(kind, n, priority, choices, case_sensitive, min_choices, max_choices) ==
    [kind |-> kind, n |-> n, priority |-> priority, custom_message |-> None,
     choices |-> choices, case_sensitive |-> case_sensitive,
     min_choices |-> min_choices, max_choices |-> max_choices]

\* Regex::new on the patterns explored, literal characters and brackets: a
\* character class that is opened and never closed does not compile
RegexCompiles(pattern) ==
    \A i \in 1..Len(pattern) :
        pattern[i] = "[" => \E j \in (i + 1)..Len(pattern) : pattern[j] = "]"

\* Regex::is_match for a pattern of literal characters: it occurs in the text
is_match(pattern, text) ==
    \E i \in 1..(Len(text) + 1) :
        /\ i + Len(pattern) - 1 <= Len(text)
        /\ SubSeq(text, i, i + Len(pattern) - 1) = pattern

\* PatternValidator::new fails: create_validator returns Err(Regex)
create_validator_fails(rc) ==
    rc.validator_type = "Pattern" /\ ~RegexCompiles(rc.pattern)

\* build_validation_engine returns Err: the `?` on the first failing rule
build_validation_engine_fails(rules) ==
    \E i \in 1..Len(rules) : create_validator_fails(rules[i])

\* create_validator: Required takes no priority override; the others apply
\* rule_config.priority over the constructor's default
create_validator(rc) ==
    CASE rc.validator_type = "Required" ->
           Validator("Required", 0, Critical, << >>, FALSE, 0, 0)
      [] rc.validator_type = "MinLength" ->
           Validator("MinLength", rc.n, UnwrapOr(rc.priority, Medium), << >>, FALSE, 0, 0)
      [] rc.validator_type = "MaxLength" ->
           Validator("MaxLength", rc.n, UnwrapOr(rc.priority, Medium), << >>, FALSE, 0, 0)
      [] rc.validator_type = "Pattern" ->
           Validator("Pattern", 0, UnwrapOr(rc.priority, High), << >>, FALSE, 0, 0)
               @@ [pattern |-> rc.pattern]
      [] rc.validator_type = "Choices" ->
           Validator("Choices", 0, UnwrapOr(rc.priority, High), rc.choices,
                     UnwrapOr(ParamGet(rc.parameters, "case_sensitive"), FALSE),
                     UnwrapOr(ParamGet(rc.parameters, "min_choices"), 1),
                     UnwrapOr(ParamGet(rc.parameters, "max_choices"), 1))

\* build_validation_engine: one validator per rule, in rule order
build_validation_engine(rules) == [i \in 1..Len(rules) |-> create_validator(rules[i])]

RequiredValidate(v, input) ==
    IF Trim(input) = << >>
    THEN failure("required", Critical, Msg("This field is required", << >>, << >>))
    ELSE success_with_priority("required", Critical)

MinLengthValidate(v, input) ==
    IF Len(input) < v.n
    THEN failure("min_length", v.priority,
                 Msg("Minimum length is {} characters (currently {})",
                     << v.n, Len(input) >>, << >>))
    ELSE success("min_length")

MaxLengthValidate(v, input) ==
    IF Len(input) > v.n
    THEN failure("max_length", v.priority,
                 Msg("Maximum length is {} characters (currently {})",
                     << v.n, Len(input) >>, << >>))
    ELSE success("max_length")

\* ------------------------------------------------------- ChoiceValidator
RECURSIVE TrimmedNonEmpty(_)
TrimmedNonEmpty(parts) ==
    IF parts = << >> THEN << >>
    ELSE IF Trim(Head(parts)) = << >> THEN TrimmedNonEmpty(Tail(parts))
    ELSE << Trim(Head(parts)) >> \o TrimmedNonEmpty(Tail(parts))

\* variant: the input is split at commas whatever max_choices is
parse_input_AlwaysSplit(v, input) == TrimmedNonEmpty(Split(input, Comma))

parse_input(v, input) ==
    IF v.max_choices = 1 THEN << Trim(input) >>
    ELSE TrimmedNonEmpty(Split(input, Comma))

\* variant: options are compared as written, whatever case_sensitive is
is_valid_choice_Exact(v, choice) == \E i \in 1..Len(v.choices) : v.choices[i] = choice

is_valid_choice(v, choice) ==
    IF v.case_sensitive
    THEN \E i \in 1..Len(v.choices) : v.choices[i] = choice
    ELSE \E i \in 1..Len(v.choices) : ToLowercase(v.choices[i]) = ToLowercase(choice)

\* Option<String>: the configured spelling of the first matching option
get_canonical_choice(v, choice) ==
    IF v.case_sensitive
    THEN (IF \E i \in 1..Len(v.choices) : v.choices[i] = choice
          THEN Some(choice) ELSE None)
    ELSE LET m == {i \in 1..Len(v.choices) :
                       ToLowercase(v.choices[i]) = ToLowercase(choice)}
        IN IF m = {} THEN None
           ELSE Some(v.choices[CHOOSE i \in m : \A j \in m : i <= j])

\* the canonical forms met a second time, in input order
RECURSIVE DuplicatesFrom(_, _, _, _)
DuplicatesFrom(v, parsed, i, seen) ==
    IF i > Len(parsed) THEN << >>
    ELSE LET c == get_canonical_choice(v, parsed[i])
         IN IF c = None THEN DuplicatesFrom(v, parsed, i + 1, seen)
            ELSE IF Unwrap(c) \in seen
                 THEN << Unwrap(c) >> \o DuplicatesFrom(v, parsed, i + 1, seen)
                 ELSE DuplicatesFrom(v, parsed, i + 1, seen \cup {Unwrap(c)})

RECURSIVE InvalidChoicesFrom(_, _, _)
InvalidChoicesFrom(v, parsed, i) ==
    IF i > Len(parsed) THEN << >>
    ELSE IF is_valid_choice(v, parsed[i]) THEN InvalidChoicesFrom(v, parsed, i + 1)
    ELSE << parsed[i] >> \o InvalidChoicesFrom(v, parsed, i + 1)

ChoiceValidate(v, input) ==
    LET parsed_choices == parse_input(v, input)
        duplicates == DuplicatesFrom(v, parsed_choices, 1, {})
        invalid_choices == InvalidChoicesFrom(v, parsed_choices, 1)
    IN IF Len(parsed_choices) < v.min_choices
       THEN failure("choice", v.priority,
                    Msg("At least {} choice(s) required", << v.min_choices >>, << >>))
       ELSE IF Len(parsed_choices) > v.max_choices
       THEN failure("choice", v.priority,
                    Msg("At most {} choice(s) allowed", << v.max_choices >>, << >>))
       ELSE IF duplicates # << >>
       THEN failure("choice", v.priority,
                    Msg("Duplicate choices not allowed: {}", << >>, duplicates))
       ELSE IF invalid_choices # << >>
       THEN failure("choice", v.priority,
                    Msg("Invalid choice(s): {}. Valid options: {}", << >>,
                        invalid_choices \o v.choices))
       ELSE success("choice")

PatternValidate(v, input) ==
    IF is_match(v.pattern, input) THEN success("pattern")
    ELSE failure("pattern", v.priority, Msg("Must match pattern: {}", << >>, << v.pattern >>))

\* Validator::validate, dispatched on the validator kind
ValidatorValidate(v, input) ==
    CASE v.kind = "Required" -> RequiredValidate(v, input)
      [] v.kind = "MinLength" -> MinLengthValidate(v, input)
      [] v.kind = "MaxLength" -> MaxLengthValidate(v, input)
      [] v.kind = "Choices" -> ChoiceValidate(v, input)
      [] v.kind = "Pattern" -> PatternValidate(v, input)

\* --------------------------------------------------- ValidationEngine
\* the result vector of ValidationEngine::validate, in registration order
EngineResults(validators, input) ==
    [i \in 1..Len(validators) |-> ValidatorValidate(validators[i], input)]

\* variant: only the first result decides
SummaryValid_FirstOnly(results) == results = << >> \/ results[1].passed

\* ValidationSummary::new: valid = results.iter().all(|r| r.passed)
SummaryValid(results) == \A i \in 1..Len(results) : results[i].passed

\* summary.valid of ValidationEngine::validate(input)
EngineValid(validators, input) == SummaryValid(EngineResults(validators, input))

\* ------------------------------------------- ValidationSummary::new
\* String::cmp on the rule names the validators produce
RuleNames ==
    << "blocking", "choice", "file_exists", "max_length", "min_length", "pattern", "required" >>
NameRank(name) == CHOOSE i \in 1..Len(RuleNames) : RuleNames[i] = name

\* the comparator of results.sort_by: priority, then rule_name
ResultLeq(ra, rb) ==
    \/ ra.priority < rb.priority
    \/ ra.priority = rb.priority /\ NameRank(ra.rule_name) <= NameRank(rb.rule_name)

\* sort_by is stable: an element goes after every element not greater than it
SortInsert(sorted, r) ==
    LET k == Cardinality({i \in 1..Len(sorted) : ResultLeq(sorted[i], r)})
    IN SubSeq(sorted, 1, k) \o << r >> \o SubSeq(sorted, k + 1, Len(sorted))

RECURSIVE SortFrom(_, _, _)
SortFrom(results, i, sorted) ==
    IF i > Len(results) THEN sorted
    ELSE SortFrom(results, i + 1, SortInsert(sorted, results[i]))

\* variant: the results stay in registration order
SortResults_Unsorted(results) == results

SortResults(results) == SortFrom(results, 1, << >>)

\* results.iter().filter(..): the elements in order that failed / passed
RECURSIVE FailedOf(_)
FailedOf(results) ==
    IF results = << >> THEN << >>
    ELSE IF Head(results).passed THEN FailedOf(Tail(results))
    ELSE << Head(results) >> \o FailedOf(Tail(results))

\* variant: the last failure is taken
MinByPriority_Last(failed) == failed[Len(failed)]

\* min_by_key(|r| r.priority): the first element of the least priority value
MinByPriority(failed) ==
    LET k == CHOOSE i \in 1..Len(failed) :
                 /\ \A j \in 1..Len(failed) : failed[i].priority <= failed[j].priority
                 /\ \A j \in 1..(i - 1) : failed[j].priority > failed[i].priority
    IN failed[k]

ValidationSummary_new(value, results) ==
    LET sorted == SortResults(results)
        valid == SummaryValid(sorted)
        failed == FailedOf(sorted)
    IN [value |-> value,
        valid |-> valid,
        error |-> IF valid THEN None ELSE MinByPriority(failed).message,
        rules_checked |-> Len(sorted),
        rules_passed |-> Len(sorted) - Len(failed),
        validation_results |-> sorted]

\* ------------------------------------------------ filter_display_errors
\* the loop over `failed`: counters per tier, break when max_errors is reached
RECURSIVE DisplayLoop(_, _, _, _, _, _, _)
DisplayLoop(failed, i, display_errors, critical_high_count, medium_count, low_count, max_errors) ==
    IF i > Len(failed) THEN display_errors
    ELSE LET error == failed[i]
             ch == IF error.priority \in {Critical, High}
                   THEN critical_high_count + 1 ELSE critical_high_count
             med == IF error.priority = Medium THEN medium_count + 1 ELSE medium_count
             low == IF error.priority = Low THEN low_count + 1 ELSE low_count
             should_include ==
                 CASE error.priority \in {Critical, High} -> TRUE
                   [] error.priority = Medium -> med <= 3
                   [] error.priority = Low -> ch = 0 /\ low <= 2
             shown_next == IF should_include THEN Append(display_errors, error)
                           ELSE display_errors
         IN IF should_include /\ IsSome(max_errors) /\ Len(shown_next) >= Unwrap(max_errors)
            THEN shown_next
            ELSE DisplayLoop(failed, i + 1, shown_next, ch, med, low, max_errors)

\* variant: every failure is shown, whatever its tier
filter_display_errors_NoTiers(results, max_errors) == FailedOf(SortResults(results))

filter_display_errors(results, max_errors) ==
    DisplayLoop(FailedOf(SortResults(results)), 1, << >>, 0, 0, 0, max_errors)

\* ------------------------------------------- validators of the engine
\* FileExistsValidator::validate; `files` is the set of paths that name a
\* regular file when the call is made
FileExistsValidate(v, input, files) ==
    IF input \in files THEN success("file_exists")
    ELSE failure("file_exists", v.priority, Msg("File does not exist", << >>, << >>))

\* Validator::validate for the validators an engine holds; a "Blocking"
\* validator is an implementor of the trait that accepts every input
ValidateIn(v, input, files) ==
    CASE v.kind = "FileExists" -> FileExistsValidate(v, input, files)
      [] v.kind = "Blocking" -> success_with_priority("blocking", v.priority)
      [] OTHER -> ValidatorValidate(v, input)

\* PartialValidationResult and its constructors
valid == [first_error_pos |-> None, can_continue |-> TRUE, suggestion |-> None]
error_at(pos) == [first_error_pos |-> Some(pos), can_continue |-> TRUE, suggestion |-> None]
with_suggestion(r, suggestion) == [r EXCEPT !.suggestion = Some(suggestion)]
blocking(r) == [r EXCEPT !.can_continue = FALSE]

\* Validator::partial_validate; the "Blocking" implementor reports its
\* position as one typing cannot get past
PartialIn(v, input, cursor) ==
    CASE v.kind = "Required" ->
           IF Trim(input) = << >> THEN error_at(0) ELSE valid
      [] v.kind = "MinLength" ->
           IF Len(input) < v.n
           THEN with_suggestion(error_at(0),
                    Msg("Need {} more characters", << v.n - Len(input) >>, << >>))
           ELSE valid
      [] v.kind = "MaxLength" ->
           IF Len(input) > v.n
           THEN with_suggestion(error_at(v.n),
                    Msg("Too long by {} characters", << Len(input) - v.n >>, << >>))
           ELSE valid
      [] v.kind = "FileExists" -> valid
      [] v.kind = "Blocking" ->
           IF Len(input) > v.n THEN blocking(error_at(v.n)) ELSE valid

\* Validator::name
RuleNameOf(v) ==
    CASE v.kind = "Required" -> "required"
      [] v.kind = "MinLength" -> "min_length"
      [] v.kind = "MaxLength" -> "max_length"
      [] v.kind = "Choices" -> "choice"
      [] v.kind = "Pattern" -> "pattern"
      [] v.kind = "FileExists" -> "file_exists"
      [] v.kind = "Blocking" -> "blocking"

\* ----------------------------------------------------- ValidationEngine
\* DashMap<String, Vec<ValidationResult>> as a function on the cached inputs
EmptyMap == << >>
MapInsert(m, k, v) == [x \in (DOMAIN m) \cup {k} |-> IF x = k THEN v ELSE m[x]]

\* ValidationEngine::new / without_cache
EngineNew == [validators |-> << >>, cache |-> Some(EmptyMap), cache_enabled |-> TRUE]
without_cache == [validators |-> << >>, cache |-> None, cache_enabled |-> FALSE]

\* variant: the validator is pushed and the cache left as it is
add_validator_KeepCache(e, v) == [e EXCEPT !.validators = Append(e.validators, v)]

\* push the validator, then clear the cache when there is one
add_validator(e, v) ==
    [e EXCEPT !.validators = Append(e.validators, v),
              !.cache = IF IsSome(e.cache) THEN Some(EmptyMap) ELSE None]

get_cached_results(e, x) ==
    IF ~e.cache_enabled THEN None
    ELSE IF e.cache = None THEN None
    ELSE IF x \in DOMAIN Unwrap(e.cache) THEN Some(Unwrap(e.cache)[x])
    ELSE None

\* variant: only the first result of the vector is stored
cache_results_FirstOnly(e, x, results) ==
    IF IsSome(e.cache)
    THEN [e EXCEPT !.cache = Some(MapInsert(Unwrap(e.cache), x,
                            IF results = << >> THEN results ELSE << results[1] >>))]
    ELSE e

cache_results(e, x, results) ==
    IF IsSome(e.cache) THEN [e EXCEPT !.cache = Some(MapInsert(Unwrap(e.cache), x, results))]
    ELSE e

clear_cache(e) == IF IsSome(e.cache) THEN [e EXCEPT !.cache = Some(EmptyMap)] ELSE e

\* "Run all validators": the results in registration order
RunValidators(e, x, fs) ==
    [i \in 1..Len(e.validators) |-> ValidateIn(e.validators[i], x, fs)]

\* validate: the engine afterwards and the summary returned
validate(e, x, fs) ==
    LET cached == get_cached_results(e, x)
        results == RunValidators(e, x, fs)
    IN IF IsSome(cached)
       THEN [engine |-> e, summary |-> ValidationSummary_new(x, Unwrap(cached))]
       ELSE [engine |-> cache_results(e, x, results),
             summary |-> ValidationSummary_new(x, results)]

\* get_display_errors: validate, then filter the summary's results
get_display_errors(e, x, max_errors, fs) ==
    LET call == validate(e, x, fs)
    IN [engine |-> call.engine,
        errors |-> filter_display_errors(call.summary.validation_results, max_errors)]

\* String::join on the collected suggestions
RECURSIVE JoinSuggestions(_, _)
JoinSuggestions(suggestions, sep) ==
    IF Len(suggestions) = 1 THEN << suggestions[1] >>
    ELSE << suggestions[1], sep >> \o JoinSuggestions(Tail(suggestions), sep)

SuggestionSeparator == Msg("; ", << >>, << >>)

\* the loop of partial_validate over the validators
RECURSIVE PartialLoop(_, _, _, _, _, _, _)
PartialLoop(validators, i, x, cursor, first_error_pos, can_continue, suggestions) ==
    IF i > Len(validators)
    THEN [first_error_pos |-> first_error_pos,
          can_continue |-> can_continue,
          suggestion |-> IF suggestions = << >> THEN None
                         ELSE Some(JoinSuggestions(suggestions, SuggestionSeparator))]
    ELSE LET r == PartialIn(validators[i], x, cursor)
             pos == IF IsSome(r.first_error_pos)
                    THEN (IF IsSome(first_error_pos)
                          THEN Some(IF Unwrap(first_error_pos) <= Unwrap(r.first_error_pos)
                                    THEN Unwrap(first_error_pos)
                                    ELSE Unwrap(r.first_error_pos))
                          ELSE r.first_error_pos)
                    ELSE first_error_pos
         IN PartialLoop(validators, i + 1, x, cursor, pos,
                        IF ~r.can_continue THEN FALSE ELSE can_continue,
                        IF IsSome(r.suggestion) THEN Append(suggestions, Unwrap(r.suggestion))
                        ELSE suggestions)

\* variant: only the first validator is asked
partial_validate_FirstOnly(e, x, cursor) ==
    PartialLoop(SubSeq(e.validators, 1, IF e.validators = << >> THEN 0 ELSE 1),
                1, x, cursor, None, TRUE, << >>)

partial_validate(e, x, cursor) ==
    PartialLoop(e.validators, 1, x, cursor, None, TRUE, << >>)

\* ===================================================================
\* State
\* ===================================================================
VARIABLES
    args,               \* PromptArgs as parsed from the command line
    cursor_control,     \* TerminalCapabilities.cursor_control (stdout is a TTY)
    gaps,               \* environment: the delays (seconds) before an event
    pc,                 \* position of run(): start, editing, navigating,
                        \*   output, exit
    raw,                \* the terminal is in raw mode
    result,             \* what prompt() returned: none, Ok or a PromptError
    value,              \* the String carried by Ok / read by the fallback
    exit_code,          \* process exit status, -1 while running
    input,              \* line editor: the buffer
    cursor_pos,         \* line editor: characters before the cursor
    attempts,           \* line editor: failed submits so far
    shown,              \* line editor: text last written to the input area
    error_block,        \* line editor: the errors last written below the input
    key,                \* the event read in the last loop iteration, "none"
                        \*   when poll timed out or the terminal failed
    elapsed,            \* seconds the session has spent waiting for events
    selected_choices,   \* choice menu: Vec<bool>, one per choice
    current_index,      \* choice menu: highlighted index (0-based)
    validation_error,   \* choice menu: Option<String> constraint message
    last_content_lines, \* choice menu: lines drawn below the prompt line
    draw_start,         \* choice menu: the row, counted from the prompt line,
                        \*   on which the last draw_menu began
    cursor_row,         \* choice menu: the row, counted from the prompt line,
                        \*   on which the last draw_menu left the cursor
    eng,                \* a ValidationEngine made by new()
    eng_nc,             \* a ValidationEngine made by without_cache(), given
                        \*   the same calls as eng
    plan,               \* the validators the caller has yet to register
    files,              \* environment: the paths that name a regular file
    ret,                \* what the last call on eng returned
    ret_nc,             \* what the same call on eng_nc returned
    history,            \* the caller's note of the first validate call made
                        \*   since the validator set last changed
    fn_results,         \* a Vec<ValidationResult> handed to a function
    fn_out,             \* what the function made of it
    fn_args             \* command-line arguments and an input handed to the
                        \*   validators built from them

promptVars == << args, cursor_control, gaps, pc, raw, result, value, exit_code, input,
                cursor_pos, attempts, shown, error_block, key, elapsed,
                selected_choices, current_index, validation_error, last_content_lines,
                draw_start, cursor_row >>
engineVars == << eng, eng_nc, plan, files, ret, ret_nc, history >>
fnVars == << fn_results, fn_out, fn_args >>

vars == << promptVars, engineVars, fnVars >>

editorVars == << input, cursor_pos, attempts, shown, error_block >>
menuVars == << selected_choices, current_index, validation_error, last_content_lines,
              draw_start, cursor_row >>
runVars == << args, cursor_control, gaps, raw, result, value, exit_code >>

\* ------------------------------------------------------ explored inputs
\* delays between two events: an event already pending, one second, the
\* explored --timeout value, and the built-in timeout
Gaps == {0, 1, CfgTimeout, DefaultTimeoutSecs}

\* the same without the intermediate delays: every event is either already
\* pending or never comes
InstantGaps == {0, DefaultTimeoutSecs}

BaseArgs ==
    [required |-> FALSE, min_length |-> None, max_length |-> None,
     choices |-> None, choices_case_sensitive |-> FALSE,
     min_choices |-> None, max_choices |-> None, selection_separator |-> None,
     required_priority |-> None, length_priority |-> None,
     format_priority |-> None, pattern |-> None, pattern_priority |-> None,
     max_attempts |-> None, timeout |-> None, default |-> None, mask |-> FALSE]

\* validator flag combinations explored for the line editor
RulePresets ==
    { [required |-> FALSE, min_length |-> None, max_length |-> None],
      [required |-> TRUE, min_length |-> Some(2), max_length |-> None],
      [required |-> FALSE, min_length |-> None, max_length |-> Some(2)] }

AttemptCeilings == {None} \cup {Some(n) : n \in 1..MaxAttemptsCfg}

\* line-editor configurations explored with instant events
EditorArgs ==
    { [BaseArgs EXCEPT !.required = r.required, !.min_length = r.min_length,
                       !.max_length = r.max_length, !.max_attempts = ma,
                       !.default = dv, !.mask = m] :
        r \in RulePresets,
        ma \in AttemptCeilings,
        dv \in {None, Some(<< "a" >>)},
        m \in BOOLEAN }

\* line-editor configurations explored with every delay
TimedEditorArgs ==
    { [BaseArgs EXCEPT !.required = TRUE, !.min_length = Some(2),
                       !.max_attempts = ma, !.timeout = t] :
        ma \in {None, Some(MaxAttemptsCfg)},
        t \in {None, Some(CfgTimeout)} }

ChoiceLists == { << >>, << << "r" >>, << "g" >>, << "b" >>, << "y" >> >> }

\* --min-choices / --max-choices combinations explored
MinMaxPairs ==
    { << None, None >>, << None, Some(3) >>, << Some(0), None >>,
      << Some(0), Some(0) >>, << Some(2), Some(1) >>, << Some(2), Some(3) >> }

MenuArgs ==
    { [BaseArgs EXCEPT !.choices = Some(cl), !.min_choices = mm[1],
                       !.max_choices = mm[2], !.selection_separator = sep,
                       !.timeout = t] :
        cl \in ChoiceLists,
        mm \in MinMaxPairs,
        sep \in {None, Some(<< ";" >>)},
        t \in {None, Some(CfgTimeout)} }

\* choice configuration combined with a length rule
MenuLengthArgs ==
    { [BaseArgs EXCEPT !.choices = Some(cl), !.min_length = Some(2)] :
        cl \in ChoiceLists }

\* choice configuration with --default naming one or two of the choices
MenuDefaultArgs ==
    { [BaseArgs EXCEPT !.choices = Some(<< << "r" >>, << "g" >>, << "b" >>, << "y" >> >>),
                       !.default = Some(<< "g" >>)],
      [BaseArgs EXCEPT !.choices = Some(<< << "r" >>, << "g" >>, << "b" >>, << "y" >> >>),
                       !.max_choices = Some(3),
                       !.default = Some(<< "r", Comma, "g" >>)] }

\* --pattern with a pattern that compiles and with one that does not
PatternArgs ==
    { [BaseArgs EXCEPT !.pattern = Some(p)] : p \in { << "a" >>, << "[" >> } }

\* choice configuration whose minimum lies above its maximum
MenuCrossedArgs ==
    { [BaseArgs EXCEPT !.choices = Some(<< << "r" >>, << "g" >>, << "b" >>, << "y" >> >>),
                       !.min_choices = Some(4), !.max_choices = Some(2)] }

ArgsSet == EditorArgs \cup TimedEditorArgs \cup MenuArgs \cup MenuLengthArgs
               \cup MenuDefaultArgs \cup PatternArgs \cup MenuCrossedArgs

\* the configurations and environments a run starts from
Runs ==
    (EditorArgs \X {InstantGaps})
    \cup (TimedEditorArgs \X {Gaps})
    \cup (MenuArgs \X {Gaps})
    \cup (MenuLengthArgs \X {InstantGaps})
    \cup (MenuDefaultArgs \X {InstantGaps})
    \cup (PatternArgs \X {InstantGaps})
    \cup (MenuCrossedArgs \X {InstantGaps})

\* lines prompt_simple may read from stdin when there is no cursor control
SimpleLines == { << >>, << "a" >>, << " ", "a", "a" >> }

\* ------------------------------------------------------------- config
validation_rules == build_validation_rules(args)
engine == build_validation_engine(validation_rules)
max_attempts == args.max_attempts
mask_input == args.mask
default_value == args.default

\* what a call returned; the fields a call does not produce keep these values
NoReturn ==
    [op |-> "none", input |-> << >>, summary |-> ValidationSummary_new(<< >>, << >>),
     errors |-> << >>, partial |-> valid, prior |-> None]

\* no engine is in use / no function is being applied
EngineIdle ==
    /\ eng = EngineNew
    /\ eng_nc = without_cache
    /\ plan = << >>
    /\ files = {}
    /\ ret = NoReturn
    /\ ret_nc = NoReturn
    /\ history = None

NoArgs == [a |-> BaseArgs, input |-> << >>]

FnIdle ==
    /\ fn_results = << >>
    /\ fn_out = NoReturn
    /\ fn_args = NoArgs

Init ==
    /\ \E r \in Runs : args = r[1] /\ gaps = r[2]
    /\ cursor_control \in BOOLEAN
    /\ pc = "start"
    /\ raw = FALSE
    /\ result = "none"
    /\ value = << >>
    /\ exit_code = -1
    /\ input = << >>
    /\ cursor_pos = 0
    /\ attempts = 0
    /\ shown = << >>
    /\ error_block = << >>
    /\ key = "none"
    /\ elapsed = 0
    /\ selected_choices = << >>
    /\ current_index = 0
    /\ validation_error = None
    /\ last_content_lines = 0
    /\ draw_start = 0
    /\ cursor_row = 0
    /\ EngineIdle
    /\ FnIdle

\* ===================================================================
\* run(): construction
\* ===================================================================
\* `attempts >= max_attempts` with max_attempts.unwrap_or(u32::MAX): without a
\* configured ceiling the comparison is false for every count below u32::MAX
\* variant: the ceiling compared with > instead of >=
AttemptsExhausted_OffByOne(n) == IsSome(max_attempts) /\ n > Unwrap(max_attempts)

AttemptsExhausted(n) == IsSome(max_attempts) /\ n >= Unwrap(max_attempts)

\* find_choice_validator: the ChoiceConfig of the first Choices rule
find_choice_validator ==
    LET idx == {i \in 1..Len(validation_rules) :
                    validation_rules[i].validator_type = "Choices"}
    IN IF idx = {} THEN None
       ELSE LET rc == validation_rules[CHOOSE i \in idx : \A j \in idx : i <= j]
                mx == UnwrapOr(ParamGet(rc.parameters, "max_choices"), 1)
            IN Some([choices |-> rc.choices,
                     allow_multiple |-> mx > 1,
                     min_choices |-> UnwrapOr(ParamGet(rc.parameters, "min_choices"), 1),
                     max_choices |-> mx,
                     selection_separator |->
                         UnwrapOr(ParamGet(rc.parameters, "selection_separator"),
                                  << Comma >>)])

choice_config == Unwrap(find_choice_validator)
choices == choice_config.choices
allow_multiple == choice_config.allow_multiple
min_choices == choice_config.min_choices
max_choices == choice_config.max_choices

\* selected_choices.iter().filter(|&&s| s).count()
selected_count(sel) == Cardinality({i \in 1..Len(sel) : sel[i]})

\* variant: only the lower bound is reported
validate_selections_MinOnly(sel) ==
    IF selected_count(sel) < min_choices
    THEN Some(Msg("At least {} choice(s) required", << min_choices >>, << >>))
    ELSE None

\* ChoiceMenu::validate_selections: the new validation_error
validate_selections(sel) ==
    IF selected_count(sel) < min_choices
    THEN Some(Msg("At least {} choice(s) required", << min_choices >>, << >>))
    ELSE IF selected_count(sel) > max_choices
    THEN Some(Msg("At most {} choice(s) allowed", << max_choices >>, << >>))
    ELSE None

\* variant: only the upper bound gates a Submit
can_submit_NoMinimum(sel) == selected_count(sel) <= max_choices

\* ChoiceMenu::can_submit
can_submit(sel) ==
    selected_count(sel) >= min_choices /\ selected_count(sel) <= max_choices

\* draw_menu: the rows the cursor goes down from the row the prompt is
\* written on: one MoveToNextLine after the prompt, one after the instruction,
\* one after each choice and one before the constraint message
draw_menu(err) ==
    1 + 1 + Len(choices) + (IF IsSome(err) THEN 1 ELSE 0)

\* clear_and_redraw: the row the cursor is on after MoveUp, from the row the
\* last draw left it on (the reserved region holds the whole menu, so no
\* cursor motion is cut short by the screen's edge)
clear_and_redraw(row, lines) ==
    IF lines > 0 THEN row - (lines + 1) ELSE row

\* variant: the constraint message line is not counted
update_content_line_count_NoErrorLine(err) == 1 + Len(choices)

\* ChoiceMenu::update_content_line_count: the new last_content_lines
update_content_line_count(err) ==
    1 + Len(choices) + (IF IsSome(err) THEN 1 ELSE 0)

\* ChoiceMenu::get_selected_choices
RECURSIVE SelectedFrom(_, _, _)
SelectedFrom(ch, sel, i) ==
    IF i > Len(ch) THEN << >>
    ELSE IF sel[i] THEN << ch[i] >> \o SelectedFrom(ch, sel, i + 1)
    ELSE SelectedFrom(ch, sel, i + 1)

get_selected_choices(sel) == SelectedFrom(choices, sel, 1)

\* PromptError::exit_code
ExitCodeOf(err) ==
    CASE err = "MaxAttemptsExceeded" -> 3
      [] err = "Timeout" -> 124
      [] err = "Interrupted" -> 130
      [] err = "Panic" -> 101
      [] OTHER -> 1

\* Terminal::enter_raw_mode / leave_raw_mode: the raw-mode flag afterwards
enter_raw_mode == TRUE
leave_raw_mode == FALSE

\* Drop for Terminal: leaves raw mode unconditionally
DropTerminal(r) == leave_raw_mode

\* variant: no cleanup on drop, the flag stays as it was
DropInteractivePrompt_NoCleanup(r) == r

\* Drop for InteractivePrompt, then the drop of its `terminal` field
DropInteractivePrompt(r) ==
    DropTerminal(IF cursor_control THEN leave_raw_mode ELSE r)

\* Drop for ChoiceMenu, then the drop of its `terminal` field
DropChoiceMenu(r) ==
    DropTerminal(IF cursor_control THEN leave_raw_mode ELSE r)

\* run() up to the first wait: the capability probe, InteractivePrompt::new
\* and prompt()'s dispatch to the line editor or to ChoiceMenu::new + show()
RunInteractiveEditor ==
    /\ pc = "start"
    /\ cursor_control
    /\ ~build_validation_engine_fails(validation_rules)
    /\ find_choice_validator = None
    /\ raw' = enter_raw_mode
    /\ pc' = "editing"
    /\ input' = << >>
    /\ cursor_pos' = 0
    /\ attempts' = 0
    /\ UNCHANGED << args, cursor_control, gaps, result, value, exit_code, shown,
                    error_block, key, elapsed, menuVars >>
    /\ UNCHANGED << engineVars, fnVars >>

RunInteractiveMenu ==
    /\ pc = "start"
    /\ cursor_control
    /\ ~build_validation_engine_fails(validation_rules)
    /\ find_choice_validator # None
    /\ raw' = enter_raw_mode
    /\ pc' = "navigating"
    /\ selected_choices' = [i \in 1..Len(choices) |-> FALSE]
    /\ current_index' = 0
    /\ validation_error' = validate_selections([i \in 1..Len(choices) |-> FALSE])
    /\ last_content_lines' =
           update_content_line_count(validate_selections([i \in 1..Len(choices) |-> FALSE]))
    /\ draw_start' = 0
    /\ cursor_row' = draw_menu(validate_selections([i \in 1..Len(choices) |-> FALSE]))
    /\ UNCHANGED << args, cursor_control, gaps, result, value, exit_code, editorVars, key, elapsed >>
    /\ UNCHANGED << engineVars, fnVars >>

\* enable_raw_mode fails in InteractivePrompt::new: the Terminal is dropped
RunRawModeError ==
    /\ pc = "start"
    /\ cursor_control
    /\ ~build_validation_engine_fails(validation_rules)
    /\ raw' = DropTerminal(raw)
    /\ result' = "Io"
    /\ exit_code' = ExitCodeOf("Io")
    /\ pc' = "exit"
    /\ UNCHANGED << args, cursor_control, gaps, value, editorVars, key,
                    elapsed, menuVars >>
    /\ UNCHANGED << engineVars, fnVars >>

\* build_validation_engine fails before InteractivePrompt::new: `?` returns
\* the error to main(), `terminal` is dropped
RunBuildError ==
    /\ pc = "start"
    /\ cursor_control
    /\ build_validation_engine_fails(validation_rules)
    /\ raw' = DropTerminal(raw)
    /\ result' = "Regex"
    /\ exit_code' = ExitCodeOf("Regex")
    /\ pc' = "exit"
    /\ UNCHANGED << args, cursor_control, gaps, value, editorVars, key,
                    elapsed, menuVars >>
    /\ UNCHANGED << engineVars, fnVars >>

\* variant: the fallback switches the terminal to raw mode before reading
RunSimple_EntersRaw ==
    /\ pc = "start"
    /\ ~cursor_control
    /\ \E line \in SimpleLines : value' = Trim(line)
    /\ result' = "Ok"
    /\ pc' = "output"
    /\ raw' = enter_raw_mode
    /\ UNCHANGED << args, cursor_control, gaps, exit_code, editorVars, key,
                    elapsed, menuVars >>
    /\ UNCHANGED << engineVars, fnVars >>

\* no cursor control: prompt_simple reads one line and trims it
RunSimple ==
    /\ pc = "start"
    /\ ~cursor_control
    /\ \E line \in SimpleLines : value' = Trim(line)
    /\ result' = "Ok"
    /\ pc' = "output"
    /\ UNCHANGED << args, cursor_control, gaps, raw, exit_code, editorVars, key,
                    elapsed, menuVars >>
    /\ UNCHANGED << engineVars, fnVars >>

\* ===================================================================
\* Line editor: InteractivePrompt::prompt and handle_key_event
\* ===================================================================
\* variant: a deadline for the whole session, the time already spent deducted
EditorPollTimeout_Cumulative ==
    IF UnwrapOr(args.timeout, DefaultTimeoutSecs) > elapsed
    THEN UnwrapOr(args.timeout, DefaultTimeoutSecs) - elapsed ELSE 0

\* the Duration handed to event::poll at every wait of the line editor
EditorPollTimeout == UnwrapOr(args.timeout, DefaultTimeoutSecs)

\* event::poll(timeout) returned true: the event came d seconds into the wait
Arrives(d, timeout) ==
    /\ d \in gaps
    /\ d < timeout
    /\ elapsed + d <= MaxElapsed
    /\ elapsed' = elapsed + d

\* what redraw_input writes to the input area
redraw_input(text) == text

\* the text the Char branch hands to redraw_input
CharRedrawText(buf) ==
    IF mask_input THEN Repeat(MaskGlyph, Len(buf)) ELSE buf

\* the max_errors update_validation_display passes to get_display_errors
DisplayMaxErrors == 10

\* update_validation_display: unless the input is masked, the error block is
\* rewritten with get_display_errors(input, Some(10)); masked, nothing is drawn
update_validation_display(buf, block) ==
    IF ~mask_input
    THEN filter_display_errors(
             ValidationSummary_new(buf, EngineResults(engine, buf)).validation_results,
             Some(DisplayMaxErrors))
    ELSE block

\* InputAction::Continue: buffer, cursor and input area after the handler,
\* then update_validation_display
Continue(k, new_input, new_cursor, new_shown) ==
    /\ key' = k
    /\ input' = new_input
    /\ cursor_pos' = new_cursor
    /\ shown' = new_shown
    /\ error_block' = update_validation_display(new_input, error_block)
    /\ UNCHANGED << pc, attempts, runVars, menuVars >>

\* the session ends: prompt() returns to run(), `interactive` goes out of
\* scope, and `?` either falls through to the output code or hands the error
\* to main(), which exits with its exit_code()
EditorReturn(res, val) ==
    /\ result' = res
    /\ value' = val
    /\ raw' = DropInteractivePrompt(raw)
    /\ pc' = IF res = "Ok" THEN "output" ELSE "exit"
    /\ exit_code' = IF res = "Ok" THEN exit_code ELSE ExitCodeOf(res)
    /\ UNCHANGED << args, cursor_control, gaps, menuVars >>

\* variant: a configured default replaces whatever was typed
SubmitInput_AlwaysDefault(buf) == UnwrapOr(default_value, buf)

\* Enter: the buffer handed to validation (default substituted when empty)
SubmitInput(buf) ==
    IF buf = << >> /\ IsSome(default_value) THEN Unwrap(default_value) ELSE buf

SubmitCursor(buf, cur) ==
    IF buf = << >> /\ IsSome(default_value) THEN Len(Unwrap(default_value)) ELSE cur

\* variant: Submit returns without consulting the engine
ValidateSubmit_Skipped(buf) == TRUE

\* `summary.valid` of the final validation a Submit runs
ValidateSubmit(buf) == EngineValid(engine, buf)

KeyEnterAccepted ==
    /\ pc = "editing"
    /\ \E d \in gaps : Arrives(d, EditorPollTimeout)
    /\ key' = "Enter"
    /\ ValidateSubmit(SubmitInput(input))
    /\ input' = SubmitInput(input)
    /\ cursor_pos' = SubmitCursor(input, cursor_pos)
    /\ EditorReturn("Ok", SubmitInput(input))
    /\ UNCHANGED << attempts, shown, error_block >>
    /\ UNCHANGED << engineVars, fnVars >>

KeyEnterRejected ==
    /\ pc = "editing"
    /\ \E d \in gaps : Arrives(d, EditorPollTimeout)
    /\ key' = "Enter"
    /\ ~ValidateSubmit(SubmitInput(input))
    /\ attempts < MaxAttemptsCfg
    /\ ~AttemptsExhausted(attempts + 1)
    /\ input' = SubmitInput(input)
    /\ cursor_pos' = SubmitCursor(input, cursor_pos)
    /\ attempts' = attempts + 1
    /\ error_block' = update_validation_display(SubmitInput(input), error_block)
    /\ UNCHANGED << pc, shown, runVars, menuVars >>
    /\ UNCHANGED << engineVars, fnVars >>

KeyEnterMaxAttempts ==
    /\ pc = "editing"
    /\ \E d \in gaps : Arrives(d, EditorPollTimeout)
    /\ key' = "Enter"
    /\ ~ValidateSubmit(SubmitInput(input))
    /\ AttemptsExhausted(attempts + 1)
    /\ input' = SubmitInput(input)
    /\ cursor_pos' = SubmitCursor(input, cursor_pos)
    /\ attempts' = attempts + 1
    /\ EditorReturn("MaxAttemptsExceeded", value)
    /\ UNCHANGED << shown, error_block >>
    /\ UNCHANGED << engineVars, fnVars >>

\* variant: Ctrl+C treated like Ctrl+D, cancelling only an empty buffer
KeyCtrlC_OnlyWhenEmpty ==
    /\ pc = "editing"
    /\ \E d \in gaps : Arrives(d, EditorPollTimeout)
    /\ IF input = << >>
       THEN /\ key' = "CtrlC"
            /\ EditorReturn("Interrupted", value)
            /\ UNCHANGED editorVars
       ELSE Continue("CtrlC", input, cursor_pos, shown)
    /\ UNCHANGED << engineVars, fnVars >>

KeyCtrlC ==
    /\ pc = "editing"
    /\ \E d \in gaps : Arrives(d, EditorPollTimeout)
    /\ key' = "CtrlC"
    /\ EditorReturn("Interrupted", value)
    /\ UNCHANGED editorVars
    /\ UNCHANGED << engineVars, fnVars >>

\* variant: Ctrl+D cancels whatever the buffer holds
KeyCtrlD_Always ==
    /\ pc = "editing"
    /\ \E d \in gaps : Arrives(d, EditorPollTimeout)
    /\ key' = "CtrlD"
    /\ EditorReturn("Interrupted", value)
    /\ UNCHANGED editorVars
    /\ UNCHANGED << engineVars, fnVars >>

KeyCtrlD ==
    /\ pc = "editing"
    /\ \E d \in gaps : Arrives(d, EditorPollTimeout)
    /\ IF input = << >>
       THEN /\ key' = "CtrlD"
            /\ EditorReturn("Interrupted", value)
            /\ UNCHANGED editorVars
       ELSE Continue("CtrlD", input, cursor_pos, shown)
    /\ UNCHANGED << engineVars, fnVars >>

\* Ctrl+A and Home
KeyHome ==
    /\ pc = "editing"
    /\ \E d \in gaps : Arrives(d, EditorPollTimeout)
    /\ Continue("Home", input, 0, shown)
    /\ UNCHANGED << engineVars, fnVars >>

\* Ctrl+E and End
KeyEnd ==
    /\ pc = "editing"
    /\ \E d \in gaps : Arrives(d, EditorPollTimeout)
    /\ Continue("End", input, Len(input), shown)
    /\ UNCHANGED << engineVars, fnVars >>

KeyCtrlK ==
    /\ pc = "editing"
    /\ \E d \in gaps : Arrives(d, EditorPollTimeout)
    /\ IF cursor_pos < Len(input)
       THEN Continue("CtrlK", SubSeq(input, 1, cursor_pos), cursor_pos,
                     redraw_input(SubSeq(input, 1, cursor_pos)))
       ELSE Continue("CtrlK", input, cursor_pos, shown)
    /\ UNCHANGED << engineVars, fnVars >>

KeyCtrlU ==
    /\ pc = "editing"
    /\ \E d \in gaps : Arrives(d, EditorPollTimeout)
    /\ IF cursor_pos > 0
       THEN Continue("CtrlU", SubSeq(input, cursor_pos + 1, Len(input)), 0,
                     redraw_input(SubSeq(input, cursor_pos + 1, Len(input))))
       ELSE Continue("CtrlU", input, cursor_pos, shown)
    /\ UNCHANGED << engineVars, fnVars >>

\* Ctrl+W: the cursor after skipping whitespace, then non-whitespace, leftwards
RECURSIVE SkipBack(_, _, _)
SkipBack(chars, pos, ws) ==
    IF pos > 0 /\ IsWhitespace(chars[pos]) = ws THEN SkipBack(chars, pos - 1, ws)
    ELSE pos

\* variant: only the non-whitespace run is skipped
WordStart_WordOnly(chars, cur) == SkipBack(chars, cur, FALSE)

WordStart(chars, cur) == SkipBack(chars, SkipBack(chars, cur, TRUE), FALSE)

KeyCtrlW ==
    /\ pc = "editing"
    /\ \E d \in gaps : Arrives(d, EditorPollTimeout)
    /\ IF cursor_pos > 0
       THEN Continue("CtrlW", Drain(input, WordStart(input, cursor_pos), cursor_pos),
                     WordStart(input, cursor_pos),
                     redraw_input(Drain(input, WordStart(input, cursor_pos), cursor_pos)))
       ELSE Continue("CtrlW", input, cursor_pos, shown)
    /\ UNCHANGED << engineVars, fnVars >>

KeyLeft ==
    /\ pc = "editing"
    /\ \E d \in gaps : Arrives(d, EditorPollTimeout)
    /\ Continue("Left", input, IF cursor_pos > 0 THEN cursor_pos - 1 ELSE cursor_pos, shown)
    /\ UNCHANGED << engineVars, fnVars >>

\* variant: Right moves the cursor without looking at the buffer's length
KeyRight_Unclamped ==
    /\ pc = "editing"
    /\ \E d \in gaps : Arrives(d, EditorPollTimeout)
    /\ Continue("Right", input, cursor_pos + 1, shown)
    /\ UNCHANGED << engineVars, fnVars >>

KeyRight ==
    /\ pc = "editing"
    /\ \E d \in gaps : Arrives(d, EditorPollTimeout)
    /\ Continue("Right", input,
                IF cursor_pos < Len(input) THEN cursor_pos + 1 ELSE cursor_pos, shown)
    /\ UNCHANGED << engineVars, fnVars >>

KeyBackspace ==
    /\ pc = "editing"
    /\ \E d \in gaps : Arrives(d, EditorPollTimeout)
    /\ IF cursor_pos > 0
       THEN Continue("Backspace", RemoveAt(input, cursor_pos - 1), cursor_pos - 1,
                     redraw_input(RemoveAt(input, cursor_pos - 1)))
       ELSE Continue("Backspace", input, cursor_pos, shown)
    /\ UNCHANGED << engineVars, fnVars >>

KeyDelete ==
    /\ pc = "editing"
    /\ \E d \in gaps : Arrives(d, EditorPollTimeout)
    /\ IF cursor_pos < Len(input)
       THEN Continue("Delete", RemoveAt(input, cursor_pos), cursor_pos,
                     redraw_input(RemoveAt(input, cursor_pos)))
       ELSE Continue("Delete", input, cursor_pos, shown)
    /\ UNCHANGED << engineVars, fnVars >>

\* a character key without the CONTROL modifier
KeyChar ==
    /\ pc = "editing"
    /\ \E d \in gaps : Arrives(d, EditorPollTimeout)
    /\ Len(input) < MaxLen
    /\ \E c \in TypeChars :
          Continue(c, InsertAt(input, cursor_pos, c), cursor_pos + 1,
                   redraw_input(CharRedrawText(InsertAt(input, cursor_pos, c))))
    /\ UNCHANGED << engineVars, fnVars >>

\* any other key, and a character key with CONTROL that no earlier arm took
KeyIgnored ==
    /\ pc = "editing"
    /\ \E d \in gaps : Arrives(d, EditorPollTimeout)
    /\ Continue("Other", input, cursor_pos, shown)
    /\ UNCHANGED << engineVars, fnVars >>

\* an event that is not a key event (resize, focus, mouse): the loop goes round
EditorOtherEvent ==
    /\ pc = "editing"
    /\ \E d \in gaps : Arrives(d, EditorPollTimeout)
    /\ key' = "Resize"
    /\ UNCHANGED << pc, editorVars, runVars, menuVars >>
    /\ UNCHANGED << engineVars, fnVars >>

\* event::poll returned false: no event within the timeout
EditorTimedOut ==
    /\ pc = "editing"
    /\ \E d \in gaps : d >= EditorPollTimeout
    /\ elapsed' = elapsed + EditorPollTimeout
    /\ key' = "none"
    /\ EditorReturn("Timeout", value)
    /\ UNCHANGED editorVars
    /\ UNCHANGED << engineVars, fnVars >>

\* a terminal read or write fails: the error is propagated by `?`
EditorIoError ==
    /\ pc = "editing"
    /\ key' = "none"
    /\ EditorReturn("Io", value)
    /\ UNCHANGED << editorVars, elapsed >>
    /\ UNCHANGED << engineVars, fnVars >>

\* ===================================================================
\* Choice menu: ChoiceMenu::show and handle_key_event
\* ===================================================================
\* the Duration handed to event::poll at every wait of the menu
MenuPollTimeout == MenuTimeoutSecs

\* selected_choices.fill(false); selected_choices[current_index] = true
SelectOnly(sel, idx) == [i \in 1..Len(sel) |-> i = idx + 1]

\* variant: Space selects and never deselects
Toggle_SetsOnly(sel, idx) == [sel EXCEPT ![idx + 1] = TRUE]

\* selected_choices[current_index] = !selected_choices[current_index]
Toggle(sel, idx) == [sel EXCEPT ![idx + 1] = ~sel[idx + 1]]

\* what Enter leaves in selected_choices before show() looks at it
EnterSelection(sel, idx) == IF allow_multiple THEN sel ELSE SelectOnly(sel, idx)

\* the String prompt_with_choice_menu makes of the Vec returned by show()
MenuValue(selected) ==
    IF allow_multiple THEN Join(selected, choice_config.selection_separator)
    ELSE IF selected = << >> THEN << >> ELSE selected[1]

\* MenuAction::Continue and the rejected Submit: validate_selections, then
\* clear_and_redraw with its update_content_line_count
MenuRedraw(k, new_sel, new_index) ==
    /\ key' = k
    /\ selected_choices' = new_sel
    /\ current_index' = new_index
    /\ validation_error' = validate_selections(new_sel)
    /\ last_content_lines' = update_content_line_count(validate_selections(new_sel))
    /\ draw_start' = clear_and_redraw(cursor_row, last_content_lines)
    /\ cursor_row' = clear_and_redraw(cursor_row, last_content_lines)
                          + draw_menu(validate_selections(new_sel))
    /\ UNCHANGED << pc, runVars, editorVars >>

\* show() returns (or unwinds): `choice_menu` goes out of scope in
\* prompt_with_choice_menu, then `interactive` in run()
MenuReturn(res, val) ==
    /\ result' = res
    /\ value' = val
    /\ raw' = DropInteractivePrompt(DropChoiceMenu(raw))
    /\ pc' = IF res = "Ok" THEN "output" ELSE "exit"
    /\ exit_code' = IF res = "Ok" THEN exit_code ELSE ExitCodeOf(res)
    /\ UNCHANGED << args, cursor_control, gaps, editorVars >>

\* indexing selected_choices / choices at current_index is in bounds
IndexInBounds == current_index < Len(selected_choices)

MenuUp ==
    /\ pc = "navigating"
    /\ \E d \in gaps : Arrives(d, MenuPollTimeout)
    /\ MenuRedraw("Up", selected_choices,
                  IF current_index > 0 THEN current_index - 1 ELSE current_index)
    /\ UNCHANGED << engineVars, fnVars >>

\* variant: Down stops one item before the last
MenuDown_StopsEarly ==
    /\ pc = "navigating"
    /\ \E d \in gaps : Arrives(d, MenuPollTimeout)
    /\ Len(choices) > 0
    /\ MenuRedraw("Down", selected_choices,
                  IF current_index < Len(choices) - 2
                  THEN current_index + 1 ELSE current_index)
    /\ UNCHANGED << engineVars, fnVars >>

\* `current_index < self.choices.len() - 1` on a non-empty list
MenuDown ==
    /\ pc = "navigating"
    /\ \E d \in gaps : Arrives(d, MenuPollTimeout)
    /\ Len(choices) > 0
    /\ MenuRedraw("Down", selected_choices,
                  IF current_index < Len(choices) - 1
                  THEN current_index + 1 ELSE current_index)
    /\ UNCHANGED << engineVars, fnVars >>

\* `self.choices.len() - 1` on an empty list, built without overflow checks:
\* the subtraction wraps to usize::MAX and the index is incremented
MenuDownWrapped ==
    /\ pc = "navigating"
    /\ \E d \in gaps : Arrives(d, MenuPollTimeout)
    /\ Len(choices) = 0
    /\ current_index < 1
    /\ MenuRedraw("Down", selected_choices, current_index + 1)
    /\ UNCHANGED << engineVars, fnVars >>

MenuEnterAccepted ==
    /\ pc = "navigating"
    /\ \E d \in gaps : Arrives(d, MenuPollTimeout)
    /\ key' = "Enter"
    /\ allow_multiple \/ IndexInBounds
    /\ can_submit(EnterSelection(selected_choices, current_index))
    /\ selected_choices' = EnterSelection(selected_choices, current_index)
    /\ MenuReturn("Ok", MenuValue(get_selected_choices(
                            EnterSelection(selected_choices, current_index))))
    /\ UNCHANGED << current_index, validation_error, last_content_lines,
                    draw_start, cursor_row >>
    /\ UNCHANGED << engineVars, fnVars >>

MenuEnterRejected ==
    /\ pc = "navigating"
    /\ \E d \in gaps : Arrives(d, MenuPollTimeout)
    /\ allow_multiple \/ IndexInBounds
    /\ ~can_submit(EnterSelection(selected_choices, current_index))
    /\ MenuRedraw("Enter", EnterSelection(selected_choices, current_index),
                  current_index)
    /\ UNCHANGED << engineVars, fnVars >>

MenuSpace ==
    /\ pc = "navigating"
    /\ \E d \in gaps : Arrives(d, MenuPollTimeout)
    /\ ~allow_multiple \/ IndexInBounds
    /\ MenuRedraw("Space", IF allow_multiple THEN Toggle(selected_choices, current_index)
                  ELSE selected_choices,
                  current_index)
    /\ UNCHANGED << engineVars, fnVars >>

\* Ctrl+C and Ctrl+D
MenuCancel ==
    /\ pc = "navigating"
    /\ \E d \in gaps : Arrives(d, MenuPollTimeout)
    /\ key' \in {"CtrlC", "CtrlD"}
    /\ MenuReturn("Interrupted", value)
    /\ UNCHANGED menuVars
    /\ UNCHANGED << engineVars, fnVars >>

MenuIgnored ==
    /\ pc = "navigating"
    /\ \E d \in gaps : Arrives(d, MenuPollTimeout)
    /\ MenuRedraw("Other", selected_choices, current_index)
    /\ UNCHANGED << engineVars, fnVars >>

MenuOtherEvent ==
    /\ pc = "navigating"
    /\ \E d \in gaps : Arrives(d, MenuPollTimeout)
    /\ key' = "Resize"
    /\ UNCHANGED << pc, menuVars, runVars, editorVars >>
    /\ UNCHANGED << engineVars, fnVars >>

MenuTimedOut ==
    /\ pc = "navigating"
    /\ \E d \in gaps : d >= MenuPollTimeout
    /\ elapsed' = elapsed + MenuPollTimeout
    /\ key' = "none"
    /\ MenuReturn("Timeout", value)
    /\ UNCHANGED menuVars
    /\ UNCHANGED << engineVars, fnVars >>

MenuIoError ==
    /\ pc = "navigating"
    /\ key' = "none"
    /\ MenuReturn("Io", value)
    /\ UNCHANGED << menuVars, elapsed >>
    /\ UNCHANGED << engineVars, fnVars >>

\* a key whose handler panics: Enter (single-select) or Space (multi-select)
\* indexing past the end of selected_choices, or Down on an empty list built
\* with overflow checks.  A build that unwinds runs both Drop impls and exits
\* with 101; a build that aborts on panic runs neither and sets no exit code
\* of its own.
MenuPanic ==
    /\ pc = "navigating"
    /\ \E d \in gaps : Arrives(d, MenuPollTimeout)
    /\ \/ key' = "Enter" /\ ~allow_multiple /\ ~IndexInBounds
       \/ key' = "Space" /\ allow_multiple /\ ~IndexInBounds
       \/ key' = "Down" /\ Len(choices) = 0
    /\ \E unwinds \in BOOLEAN :
           /\ raw' = IF unwinds THEN DropInteractivePrompt(DropChoiceMenu(raw)) ELSE raw
           /\ exit_code' = IF unwinds THEN ExitCodeOf("Panic") ELSE exit_code
    /\ result' = "Panic"
    /\ pc' = "exit"
    /\ UNCHANGED << args, cursor_control, gaps, value, editorVars, menuVars >>
    /\ UNCHANGED << engineVars, fnVars >>

\* ===================================================================
\* run(): scope exit and output
\* ===================================================================
\* final validation for output by a freshly built engine, then the exit code
Output ==
    /\ pc = "output"
    /\ ~build_validation_engine_fails(validation_rules)
    /\ exit_code' = IF EngineValid(build_validation_engine(validation_rules), value)
                    THEN 0 ELSE ExitCodeOf("ValidationFailed")
    /\ pc' = "exit"
    /\ UNCHANGED << args, cursor_control, gaps, raw, result, value, editorVars, key,
                    elapsed, menuVars >>
    /\ UNCHANGED << engineVars, fnVars >>

\* the engine for the final validation cannot be built: the first
\* build_validation_engine call of a run that took the fallback
OutputBuildError ==
    /\ pc = "output"
    /\ build_validation_engine_fails(validation_rules)
    /\ result' = "Regex"
    /\ exit_code' = ExitCodeOf("Regex")
    /\ pc' = "exit"
    /\ UNCHANGED << args, cursor_control, gaps, raw, value, editorVars, key,
                    elapsed, menuVars >>
    /\ UNCHANGED << engineVars, fnVars >>

Next ==
    \/ RunInteractiveEditor \/ RunInteractiveMenu \/ RunRawModeError \/ RunSimple
    \/ RunBuildError
    \/ KeyEnterAccepted \/ KeyEnterRejected \/ KeyEnterMaxAttempts
    \/ KeyCtrlC \/ KeyCtrlD \/ KeyHome \/ KeyEnd
    \/ KeyCtrlK \/ KeyCtrlU \/ KeyCtrlW
    \/ KeyLeft \/ KeyRight \/ KeyBackspace \/ KeyDelete \/ KeyChar \/ KeyIgnored
    \/ EditorOtherEvent \/ EditorTimedOut \/ EditorIoError
    \/ MenuUp \/ MenuDown \/ MenuDownWrapped
    \/ MenuEnterAccepted \/ MenuEnterRejected \/ MenuSpace
    \/ MenuCancel \/ MenuIgnored \/ MenuOtherEvent \/ MenuTimedOut \/ MenuIoError
    \/ MenuPanic
    \/ Output \/ OutputBuildError

Spec == Init /\ [][Next]_vars

\* ===================================================================
\* ValidationEngine driven through its public API
\* ===================================================================
\* the inputs validated: "", "hi", "hello"
EngineInputs == { << >>, << "h", "i" >>, << "h", "e", "l", "l", "o" >> }

\* the paths whose existence may change while the engine is in use
Paths == { << "h", "i" >> }

RequiredV == Validator("Required", 0, Critical, << >>, FALSE, 0, 0)
MinLengthV(n, priority) == Validator("MinLength", n, priority, << >>, FALSE, 0, 0)
MaxLengthV(n, priority) == Validator("MaxLength", n, priority, << >>, FALSE, 0, 0)
FileExistsV == Validator("FileExists", 0, High, << >>, FALSE, 0, 0)
BlockingV(n) == Validator("Blocking", n, Medium, << >>, FALSE, 0, 0)

\* the add_validator sequences explored
Plans ==
    { << RequiredV, MinLengthV(5, Medium) >>,
      << MinLengthV(5, Medium), RequiredV >>,
      << MinLengthV(5, Low), MaxLengthV(2, Low), MinLengthV(3, Low) >>,
      << MaxLengthV(2, High), MinLengthV(5, Medium), BlockingV(1) >>,
      << FileExistsV, RequiredV >>,
      << MinLengthV(3, Medium), FileExistsV >> }

\* the prompt is not running
PromptIdle ==
    /\ args = BaseArgs
    /\ cursor_control = FALSE
    /\ gaps = {}
    /\ pc = "exit"
    /\ raw = FALSE
    /\ result = "none"
    /\ value = << >>
    /\ exit_code = -1
    /\ input = << >>
    /\ cursor_pos = 0
    /\ attempts = 0
    /\ shown = << >>
    /\ error_block = << >>
    /\ key = "none"
    /\ elapsed = 0
    /\ selected_choices = << >>
    /\ current_index = 0
    /\ validation_error = None
    /\ last_content_lines = 0
    /\ draw_start = 0
    /\ cursor_row = 0

EngineInit ==
    /\ PromptIdle
    /\ FnIdle
    /\ eng = EngineNew
    /\ eng_nc = without_cache
    /\ plan \in Plans
    /\ files \in SUBSET Paths
    /\ ret = NoReturn
    /\ ret_nc = NoReturn
    /\ history = None

\* what the caller notes of a validate call: the input, how many validators
\* the engine held, and the summary's results, valid and error
Observed(e, x, summary) ==
    [input |-> x, n |-> Len(e.validators),
     validation_results |-> summary.validation_results,
     valid |-> summary.valid, error |-> summary.error]

\* the note is kept while it is about the present validator set
NoteAfter(e, x, summary) ==
    IF IsSome(history) /\ Unwrap(history).n = Len(e.validators) THEN history
    ELSE Some(Observed(e, x, summary))

\* the note of an earlier validate call on the same input, if there is one
PriorOf(x) ==
    IF IsSome(history) /\ Unwrap(history).input = x THEN history ELSE None

\* engine.add_validator(Box::new(..)) on both engines
EngineAddValidator ==
    /\ plan # << >>
    /\ eng' = add_validator(eng, Head(plan))
    /\ eng_nc' = add_validator(eng_nc, Head(plan))
    /\ plan' = Tail(plan)
    /\ ret' = [NoReturn EXCEPT !.op = "add_validator"]
    /\ ret_nc' = [NoReturn EXCEPT !.op = "add_validator"]
    /\ UNCHANGED << files, history, promptVars, fnVars >>

\* engine.validate(x) on both engines
EngineValidate ==
    \E x \in EngineInputs :
        LET call == validate(eng, x, files)
            call_nc == validate(eng_nc, x, files)
        IN  /\ eng' = call.engine
            /\ eng_nc' = call_nc.engine
            /\ ret' = [NoReturn EXCEPT !.op = "validate", !.input = x,
                                       !.summary = call.summary, !.prior = PriorOf(x)]
            /\ ret_nc' = [NoReturn EXCEPT !.op = "validate", !.input = x,
                                          !.summary = call_nc.summary]
            /\ history' = NoteAfter(eng, x, call.summary)
            /\ UNCHANGED << plan, files, promptVars, fnVars >>

\* engine.get_display_errors(x, max_errors) on both engines
EngineGetDisplayErrors ==
    \E x \in EngineInputs, max_errors \in {None, Some(1)} :
        LET call == get_display_errors(eng, x, max_errors, files)
            call_nc == get_display_errors(eng_nc, x, max_errors, files)
        IN  /\ eng' = call.engine
            /\ eng_nc' = call_nc.engine
            /\ ret' = [NoReturn EXCEPT !.op = "get_display_errors", !.input = x,
                                       !.errors = call.errors]
            /\ ret_nc' = [NoReturn EXCEPT !.op = "get_display_errors", !.input = x,
                                          !.errors = call_nc.errors]
            /\ UNCHANGED << plan, files, history, promptVars, fnVars >>

\* engine.partial_validate(x, cursor) on both engines
EnginePartialValidate ==
    \E x \in EngineInputs :
        /\ ret' = [NoReturn EXCEPT !.op = "partial_validate", !.input = x,
                                   !.partial = partial_validate(eng, x, Len(x))]
        /\ ret_nc' = [NoReturn EXCEPT !.op = "partial_validate", !.input = x,
                                      !.partial = partial_validate(eng_nc, x, Len(x))]
        /\ UNCHANGED << eng, eng_nc, plan, files, history, promptVars, fnVars >>

\* engine.clear_cache() on both engines
EngineClearCache ==
    /\ eng' = clear_cache(eng)
    /\ eng_nc' = clear_cache(eng_nc)
    /\ ret' = [NoReturn EXCEPT !.op = "clear_cache"]
    /\ ret_nc' = [NoReturn EXCEPT !.op = "clear_cache"]
    /\ UNCHANGED << plan, files, history, promptVars, fnVars >>

\* environment: a file is created or removed between two calls
FilesChange ==
    \E path \in Paths :
        /\ files' = IF path \in files THEN files \ {path} ELSE files \cup {path}
        /\ ret' = [NoReturn EXCEPT !.op = "files"]
        /\ ret_nc' = [NoReturn EXCEPT !.op = "files"]
        /\ UNCHANGED << eng, eng_nc, plan, history, promptVars, fnVars >>

EngineNext ==
    \/ EngineAddValidator \/ EngineValidate \/ EngineGetDisplayErrors
    \/ EnginePartialValidate \/ EngineClearCache \/ FilesChange

EngineSpec == EngineInit /\ [][EngineNext]_vars

\* ===================================================================
\* get_display_errors on result vectors of every tier mix
\* ===================================================================
\* most failures of Medium, of Low and of each of Critical and High in a
\* vector, and the largest max_errors handed over
MaxMedium == 5
MaxLow == 5
MaxCriticalHigh == 1
MaxErrorsArg == 5

\* validators that all reject "" (bar the MaxLength one, which accepts it),
\* registered from the least to the most urgent
FnValidators(c, h, m, l) ==
    [k \in 1..l |-> MinLengthV(k, Low)]
    \o [k \in 1..m |-> MinLengthV(k, Medium)]
    \o << MaxLengthV(MaxLen, Medium) >>
    \o [k \in 1..h |-> FileExistsV]
    \o [k \in 1..c |-> RequiredV]

\* what validate collects from them before building the summary
FnVectors ==
    { [i \in 1..Len(FnValidators(c, h, m, l)) |->
           ValidateIn(FnValidators(c, h, m, l)[i], << >>, {})] :
      c \in 0..MaxCriticalHigh, h \in 0..MaxCriticalHigh,
      m \in 0..MaxMedium, l \in 0..MaxLow }

FnInit ==
    /\ PromptIdle
    /\ EngineIdle
    /\ fn_results \in FnVectors
    /\ fn_out = [op |-> "none", max_errors |-> None, errors |-> << >>]
    /\ fn_args = NoArgs

\* get_display_errors: the summary's results go through filter_display_errors
FnGetDisplayErrors ==
    /\ \E max_errors \in {None} \cup {Some(k) : k \in 0..MaxErrorsArg} :
           fn_out' = [op |-> "display",
                      max_errors |-> max_errors,
                      errors |-> filter_display_errors(
                                     ValidationSummary_new(<< >>, fn_results).validation_results,
                                     max_errors)]
    /\ UNCHANGED << promptVars, engineVars, fn_results, fn_args >>

FnNext == FnGetDisplayErrors

FnSpec == FnInit /\ [][FnNext]_vars

\* ===================================================================
\* validators built from command-line arguments, applied to one input
\* ===================================================================
Red == << "r", "e", "d" >>
Green == << "g", "r", "e", "e", "n" >>
Blue == << "b", "l", "u", "e" >>
Pink == << "p", "i", "n", "k" >>

\* --choices red,green,blue with the count options and the case flag
ChoiceArgs ==
    { [BaseArgs EXCEPT !.choices = Some(<< Red, Green, Blue >>),
                       !.min_choices = mm[1], !.max_choices = mm[2],
                       !.choices_case_sensitive = cs] :
        mm \in { << None, None >>, << Some(1), Some(1) >>, << Some(1), Some(2) >>,
                 << Some(0), Some(2) >>, << Some(3), Some(2) >>, << Some(2), Some(3) >>,
                 << Some(2), None >>, << None, Some(2) >> },
        cs \in BOOLEAN }

ChoiceInputs ==
    { << >>, Red, << "R", "E", "D" >>, Pink,
      Red \o << Comma >> \o Green,
      Red \o << Comma, Comma >> \o Green,
      Red \o << Comma, " " >> \o Red,
      Red \o << Comma, "R", "E", "D" >>,
      Red \o << Comma >> \o Pink,
      Red \o << Comma >> \o Green \o << Comma >> \o Blue,
      Red \o << Comma >> \o Green \o << Comma >> \o Blue \o << Comma >> \o Pink }

\* one validator of each kind, every priority option set to the same value
PriorityArgs ==
    { [BaseArgs EXCEPT !.required = TRUE, !.required_priority = p,
                       !.min_length = Some(2), !.max_length = Some(2),
                       !.length_priority = p,
                       !.pattern = Some(<< "a" >>), !.pattern_priority = p,
                       !.choices = Some(<< Red, Green, Blue >>),
                       !.format_priority = p] :
        p \in {None} \cup {Some(q) : q \in Priorities} }

\* ------------------------------ partial_validate of Pattern and Choice
\* a character whose UTF-8 encoding takes two bytes
EAcute == "é"
len_utf8(c) == IF c = EAcute THEN 2 ELSE 1

\* str::len: the length in bytes
RECURSIVE ByteLen(_)
ByteLen(s) == IF s = << >> THEN 0 ELSE len_utf8(Head(s)) + ByteLen(Tail(s))

\* char_indices: the byte offset of the k-th character (k from 1)
ByteIndex(s, k) == ByteLen(SubSeq(s, 1, k - 1))

\* str::is_char_boundary
is_char_boundary(s, b) ==
    b = ByteLen(s) \/ \E k \in 1..Len(s) : ByteIndex(s, k) = b

\* str::starts_with
starts_with(s, prefix) ==
    Len(prefix) <= Len(s) /\ SubSeq(s, 1, Len(prefix)) = prefix

\* what a call comes to: a value, or a panic that unwinds out of it
Returned(r) == [panicked |-> FALSE, value |-> r]
Panicked == [panicked |-> TRUE, value |-> valid]

\* PatternValidator::partial_validate, the scan `for (i, _) in char_indices`:
\* &input[..=i] panics unless byte i + 1 is a character boundary
RECURSIVE PatternScan(_, _, _)
PatternScan(v, text, k) ==
    IF k > Len(text) THEN Returned(error_at(0))
    ELSE IF ~is_char_boundary(text, ByteIndex(text, k) + 1) THEN Panicked
    ELSE IF ~is_match(v.pattern, SubSeq(text, 1, k))
         THEN Returned(error_at(ByteIndex(text, k)))
    ELSE PatternScan(v, text, k + 1)

PatternPartialValidate(v, text) ==
    IF text = << >> THEN Returned(valid)
    ELSE IF is_match(v.pattern, text) THEN Returned(valid)
    ELSE PatternScan(v, text, 1)

\* some configured choice starts with the text (case folded when insensitive)
ChoiceHasPartialMatch(v, text) ==
    \E i \in 1..Len(v.choices) :
        IF v.case_sensitive THEN starts_with(v.choices[i], text)
        ELSE starts_with(ToLowercase(v.choices[i]), ToLowercase(text))

\* ChoiceValidator::partial_validate, the scans over char_indices: the slice
\* text[..=i] panics unless byte i + 1 is a character boundary
RECURSIVE ChoiceScan(_, _, _, _)
ChoiceScan(v, text, k, prefix_len) ==
    IF k > Len(text) THEN Returned(valid)
    ELSE IF ~is_char_boundary(text, ByteIndex(text, k) + 1) THEN Panicked
    ELSE IF ~ChoiceHasPartialMatch(v, Trim(SubSeq(text, 1, k)))
         THEN Returned(error_at(prefix_len + ByteIndex(text, k)))
    ELSE ChoiceScan(v, text, k + 1, prefix_len)

\* the single-choice scan compares the untrimmed prefix
RECURSIVE ChoiceScanSingle(_, _, _)
ChoiceScanSingle(v, text, k) ==
    IF k > Len(text) THEN Returned(valid)
    ELSE IF ~is_char_boundary(text, ByteIndex(text, k) + 1) THEN Panicked
    ELSE IF ~ChoiceHasPartialMatch(v, SubSeq(text, 1, k))
         THEN Returned(error_at(ByteIndex(text, k)))
    ELSE ChoiceScanSingle(v, text, k + 1)

ChoicePartialValidate(v, text) ==
    IF text = << >> THEN Returned(valid)
    ELSE IF v.max_choices = 1
    THEN (IF ChoiceHasPartialMatch(v, text) THEN Returned(valid)
          ELSE ChoiceScanSingle(v, text, 1))
    ELSE LET parts == Split(text, Comma)
             current_choice == Trim(parts[Len(parts)])
             prefix_len == ByteLen(text) - ByteLen(parts[Len(parts)])
         IN  IF current_choice = << >> THEN Returned(valid)
             ELSE IF ChoiceHasPartialMatch(v, current_choice) THEN Returned(valid)
             ELSE ChoiceScan(v, current_choice, 1, prefix_len)

\* Validator::partial_validate with its way of ending
ValidatorPartialValidate(v, text, cursor) ==
    CASE v.kind = "Pattern" -> PatternPartialValidate(v, text)
      [] v.kind = "Choices" -> ChoicePartialValidate(v, text)
      [] OTHER -> Returned(PartialIn(v, text, cursor))

\* inputs with a two-byte character
WideInputs ==
    { << EAcute >>, << "r", EAcute >>, << "x", EAcute >>,
      Red \o << Comma, EAcute >>, Red \o << Comma >> \o Pink }

RuleInit ==
    /\ PromptIdle
    /\ EngineIdle
    /\ fn_results = << >>
    /\ fn_out = [op |-> "none", rules |-> << >>, validators |-> << >>,
                 results |-> << >>, partials |-> << >>]
    /\ fn_args \in [a : ChoiceArgs, input : ChoiceInputs]
                       \cup [a : PriorityArgs, input : {<< >>, Red}]
                       \cup [a : ChoiceArgs \cup PriorityArgs, input : WideInputs]

\* build_validation_rules, build_validation_engine, then each validator's
\* validate on the input
RuleValidate ==
    /\ fn_out.op = "none"
    /\ LET validators == build_validation_engine(build_validation_rules(fn_args.a))
       IN fn_out' = [op |-> "validate",
                     rules |-> build_validation_rules(fn_args.a),
                     validators |-> validators,
                     results |-> [i \in 1..Len(validators) |->
                                      ValidatorValidate(validators[i], fn_args.input)],
                     partials |-> << >>]
    /\ UNCHANGED << promptVars, engineVars, fn_results, fn_args >>

\* build_validation_rules, build_validation_engine, then each validator's
\* partial_validate on the input with the cursor at its end
RulePartialValidate ==
    /\ fn_out.op = "none"
    /\ LET validators == build_validation_engine(build_validation_rules(fn_args.a))
       IN fn_out' = [op |-> "partial_validate",
                     rules |-> build_validation_rules(fn_args.a),
                     validators |-> validators,
                     results |-> << >>,
                     partials |-> [i \in 1..Len(validators) |->
                                      ValidatorPartialValidate(validators[i], fn_args.input,
                                                               Len(fn_args.input))]]
    /\ UNCHANGED << promptVars, engineVars, fn_results, fn_args >>

RuleNext == RuleValidate \/ RulePartialValidate

RuleSpec == RuleInit /\ [][RuleNext]_vars

\* ===================================================================
\* Properties
\* ===================================================================
\* the run took the line-editor path / the choice-menu path
EditorPath == cursor_control /\ find_choice_validator = None
MenuPath == cursor_control /\ find_choice_validator # None

\* C1: the line editor returns Ok(value) only out of an Enter whose buffer
\* (the default substituted for an empty one) passes the full validation of
\* the configured engine, and the value returned is that buffer.
C1_OkOnlyFromValidSubmit ==
    [][(pc = "editing" /\ result' = "Ok") =>
           /\ key' = "Enter"
           /\ value' = SubmitInput(input)
           /\ input' = value'
           /\ EngineValid(engine, value')]_vars

C1_Witness ==
    /\ EditorPath
    /\ result = "Ok"
    /\ validation_rules # << >>
    /\ attempts > 0
    /\ IsSome(default_value)
    /\ value = Unwrap(default_value)

\* C2: with max_attempts = N >= 1 the counter moves only on a failed Enter,
\* by exactly one; the session ends MaxAttemptsExceeded exactly when that
\* brings it to N, and stays in the editor (counter below N) otherwise.
C2_AttemptsCountFailedSubmits ==
    [][(pc = "editing" /\ IsSome(max_attempts) /\ Unwrap(max_attempts) >= 1) =>
           LET N == Unwrap(max_attempts)
               failedSubmit == key' = "Enter" /\ ~EngineValid(engine, SubmitInput(input))
           IN  /\ attempts < N
               /\ failedSubmit => attempts' = attempts + 1
               /\ ~failedSubmit => attempts' = attempts
               /\ (result' = "MaxAttemptsExceeded") <=> (failedSubmit /\ attempts' = N)
               /\ (failedSubmit /\ attempts' < N) => (pc' = "editing" /\ result' = "none")]_vars

C2_Witness ==
    /\ EditorPath
    /\ max_attempts = Some(2)
    /\ result = "MaxAttemptsExceeded"
    /\ attempts = 2
    /\ exit_code = 3

\* C3: with mask_input set, every text an editing key writes to the input
\* area is one mask glyph per buffer character and nothing else.
C3_MaskedAreaShowsOnlyGlyphs ==
    [][(pc = "editing" /\ mask_input /\ key' # "Enter"
            /\ (shown' # shown \/ input' # input)) =>
           shown' = Repeat(MaskGlyph, Len(input'))]_vars

\* C4: raw mode is on while a prompt waits for keys and is off again once the
\* prompt has returned a value or an error (submit, Interrupted, Timeout,
\* MaxAttemptsExceeded, I/O error), before the output / exit-code code runs.
C4_RawModeReleased ==
    /\ pc \in {"editing", "navigating"} => raw
    /\ (pc \in {"output", "exit"} /\ result # "Panic") => ~raw

C4_Witness ==
    /\ pc = "exit"
    /\ EditorPath
    /\ result = "MaxAttemptsExceeded"
    /\ ~raw

\* C5: the line editor's timeout is measured per wait: the session ends
\* TimedOut only by one wait lasting the whole timeout (configured, else
\* 300 s), and every event read arrived before that, however long the
\* session has lasted in total.
C5_TimeoutPerWait ==
    [][pc = "editing" =>
           LET T == UnwrapOr(args.timeout, DefaultTimeoutSecs)
           IN  /\ (result' = "Timeout") => (key' = "none" /\ elapsed' - elapsed = T)
               /\ (key' # "none") => (elapsed' - elapsed < T /\ result' # "Timeout")]_vars

C5_Witness ==
    /\ EditorPath
    /\ pc = "editing"
    /\ IsSome(args.timeout)
    /\ elapsed >= Unwrap(args.timeout)
    /\ key # "none"

\* C6: the choice menu times out on the configured timeout as well: a wait
\* ends TimedOut after exactly that long, and every event read arrived sooner.
C6_MenuHonoursConfiguredTimeout ==
    [][pc = "navigating" =>
           LET T == UnwrapOr(args.timeout, DefaultTimeoutSecs)
           IN  /\ (result' = "Timeout") => (key' = "none" /\ elapsed' - elapsed = T)
               /\ (key' # "none") => (elapsed' - elapsed < T /\ result' # "Timeout")]_vars

\* C7: Ctrl+C in the line editor ends the session Interrupted at once: no
\* value is returned, the attempt counter, the buffer and the cursor stay
\* as they were.
C7_CtrlCCancelsAtOnce ==
    [][(pc = "editing" /\ key' = "CtrlC") =>
           /\ result' = "Interrupted"
           /\ pc' = "exit"
           /\ exit_code' = 130
           /\ value' = value
           /\ attempts' = attempts
           /\ input' = input
           /\ cursor_pos' = cursor_pos]_vars

C7_Witness ==
    /\ EditorPath
    /\ key = "CtrlC"
    /\ result = "Interrupted"
    /\ input # << >>
    /\ attempts = 1

\* C8: a multi-select menu returns only on an Enter with between min and max
\* items selected; any other Enter leaves the selection and the highlighted
\* index alone and the menu stays open, so a later Enter can succeed.
C8_MultiSelectEnterGated ==
    [][(pc = "navigating" /\ allow_multiple) =>
           LET n == selected_count(selected_choices)
               within == min_choices <= n /\ n <= max_choices
           IN  /\ (result' = "Ok") => (key' = "Enter" /\ within)
               /\ (key' = "Enter" /\ within) =>
                      /\ result' = "Ok"
                      /\ value' = MenuValue(get_selected_choices(selected_choices))
               /\ (key' = "Enter" /\ ~within) =>
                      /\ pc' = "navigating"
                      /\ result' = "none"
                      /\ selected_choices' = selected_choices
                      /\ current_index' = current_index]_vars

C8_Witness ==
    /\ MenuPath
    /\ allow_multiple
    /\ min_choices = 2
    /\ max_choices = 3
    /\ Len(choices) = 4
    /\ result = "Ok"
    /\ selected_count(selected_choices) = 2
    /\ validation_error = None

\* C9: in a single-select menu (max <= 1) Enter on a highlighted item selects
\* that item alone and returns it at once, whatever min and max are configured.
C9_SingleSelectEnterReturns ==
    [][(pc = "navigating" /\ ~allow_multiple /\ IndexInBounds /\ key' = "Enter") =>
           /\ result' = "Ok"
           /\ selected_choices' = SelectOnly(selected_choices, current_index)
           /\ value' = choices[current_index + 1]]_vars

\* C10: a string returned by the choice menu passes the full validation of
\* the engine built from the same configuration.
C10_MenuValuePassesValidation ==
    (MenuPath /\ result = "Ok") => EngineValid(engine, value)

\* how many validators of the engine / results of a vector carry a rule name
ValidatorsNamed(e, name) ==
    Cardinality({i \in 1..Len(e.validators) : RuleNameOf(e.validators[i]) = name})
ResultsNamed(results, name) ==
    Cardinality({i \in 1..Len(results) : results[i].rule_name = name})

\* C11: after add_validator no result vector computed before the addition is
\* left to be served, and validate returns one result per validator of the
\* updated set, the newly added one included.
C11_AddValidatorInvalidatesCache ==
    /\ \A x \in DOMAIN Unwrap(eng.cache) :
           Len(Unwrap(eng.cache)[x]) = Len(eng.validators)
    /\ ret.op = "validate" =>
           /\ Len(ret.summary.validation_results) = Len(eng.validators)
           /\ \A i \in 1..Len(eng.validators) :
                  ResultsNamed(ret.summary.validation_results,
                               RuleNameOf(eng.validators[i]))
                      = ValidatorsNamed(eng, RuleNameOf(eng.validators[i]))

C11_Witness ==
    /\ ret.op = "validate"
    /\ IsSome(ret.prior)
    /\ Unwrap(ret.prior).n >= 1
    /\ Unwrap(ret.prior).n < Len(eng.validators)
    /\ Len(ret.summary.validation_results) = Len(eng.validators)

\* the engine holds no validator that reads the filesystem
PureValidators(e) ==
    \A i \in 1..Len(e.validators) : e.validators[i].kind # "FileExists"

\* validate returned, for an input noted earlier under the same validator set,
\* the validation_results, valid and error noted then
SameAsNoted ==
    /\ ret.summary.validation_results = Unwrap(ret.prior).validation_results
    /\ ret.summary.valid = Unwrap(ret.prior).valid
    /\ ret.summary.error = Unwrap(ret.prior).error

\* C12 (as stated): with a fixed validator set, a repeated validate(x) returns
\* the validation_results, valid and error of the earlier call.
C12_RepeatedValidateIdentical ==
    (ret.op = "validate" /\ IsSome(ret.prior)
        /\ Unwrap(ret.prior).n = Len(eng.validators)) => SameAsNoted

\* C12 (amended): with a fixed set of validators none of which reads the
\* filesystem, a repeated validate(x) returns the validation_results, valid
\* and error of the earlier call, computed or cached, whatever was validated
\* in between.
C12_RepeatedValidateIdenticalWhenPure ==
    (ret.op = "validate" /\ IsSome(ret.prior)
        /\ Unwrap(ret.prior).n = Len(eng.validators)
        /\ PureValidators(eng)) => SameAsNoted

C12_Witness ==
    /\ ret.op = "validate"
    /\ IsSome(ret.prior)
    /\ Unwrap(ret.prior).n = Len(eng.validators)
    /\ PureValidators(eng)
    /\ Len(eng.validators) = 3
    /\ ~ret.summary.valid
    /\ ret.input \in DOMAIN Unwrap(eng.cache)
    /\ Cardinality(DOMAIN Unwrap(eng.cache)) >= 2

\* C13: the engine with the cache and the engine without it, given the same
\* calls, return the same results at every validate and get_display_errors.
C13_CacheTransparent ==
    /\ ret.op = "validate" =>
           /\ ret.summary.validation_results = ret_nc.summary.validation_results
           /\ ret.summary.valid = ret_nc.summary.valid
           /\ ret.summary.error = ret_nc.summary.error
    /\ ret.op = "get_display_errors" => ret.errors = ret_nc.errors

\* C14: the validation_results of every summary are ordered by priority
\* (Critical < High < Medium < Low) and, within one priority, by rule_name,
\* in whatever order the validators were registered.
C14_ResultsSorted ==
    ret.op = "validate" =>
        \A i, j \in 1..Len(ret.summary.validation_results) :
            i < j =>
                LET ri == ret.summary.validation_results[i]
                    rj == ret.summary.validation_results[j]
                IN \/ ri.priority < rj.priority
                   \/ /\ ri.priority = rj.priority
                      /\ NameRank(ri.rule_name) <= NameRank(rj.rule_name)

C14_Witness ==
    /\ ret.op = "validate"
    /\ IsSome(ret.prior)
    /\ Len(eng.validators) = 2
    /\ eng.validators[1].kind = "MinLength"
    /\ eng.validators[2].kind = "Required"
    /\ ret.summary.validation_results[1].rule_name = "required"
    /\ ret.summary.validation_results[2].rule_name = "min_length"

\* C15: in every summary valid is true iff every result passed (so no
\* validators gives valid), and error is None iff valid is true.
C15_ValidIffAllPassed ==
    ret.op = "validate" =>
        /\ ret.summary.valid <=>
               \A i \in 1..Len(ret.summary.validation_results) :
                   ret.summary.validation_results[i].passed
        /\ (ret.summary.error = None) <=> ret.summary.valid

C15_Witness ==
    /\ ret.op = "validate"
    /\ ~ret.summary.valid
    /\ ret.summary.error # None
    /\ \E i \in 1..Len(ret.summary.validation_results) :
           ret.summary.validation_results[i].passed

\* the index of the first failed entry of a summary's results
FirstFailure(results) ==
    CHOOSE i \in 1..Len(results) :
        ~results[i].passed /\ \A j \in 1..(i - 1) : results[j].passed

\* C16: when a result failed, error is the message of the failing result of
\* the lowest priority value, the smallest rule_name among equals: the first
\* failing entry of the sorted results.  With [Required, MinLength(5)], ""
\* gives the Required message, "hi" the MinLength message, "hello" no error.
C16_ErrorIsFirstFailure ==
    ret.op = "validate" =>
        LET results == ret.summary.validation_results
        IN /\ (\E i \in 1..Len(results) : ~results[i].passed) =>
                  /\ ret.summary.error = results[FirstFailure(results)].message
                  /\ \A j \in 1..Len(results) :
                         ~results[j].passed =>
                             LET f == results[FirstFailure(results)]
                             IN \/ f.priority < results[j].priority
                                \/ /\ f.priority = results[j].priority
                                   /\ NameRank(f.rule_name) <= NameRank(results[j].rule_name)
           /\ eng.validators = << RequiredV, MinLengthV(5, Medium) >> =>
                  ret.summary.error =
                      CASE ret.input = << >> ->
                               Some(Msg("This field is required", << >>, << >>))
                        [] ret.input = << "h", "i" >> ->
                               Some(Msg("Minimum length is {} characters (currently {})",
                                        << 5, 2 >>, << >>))
                        [] OTHER -> None

C16_Witness ==
    /\ ret.op = "validate"
    /\ eng.validators = << RequiredV, MinLengthV(5, Medium) >>
    /\ ret.input = << >>
    /\ Len(FailedOf(ret.summary.validation_results)) = 2
    /\ ret.summary.error = Some(Msg("This field is required", << >>, << >>))

\* the failures of one tier, in sorted order
FailuresAt(results, priorities) ==
    SelectSeq(SortResults(results), LAMBDA r : ~r.passed /\ r.priority \in priorities)

FirstOf(s, n) == SubSeq(s, 1, IF Len(s) < n THEN Len(s) ELSE n)

\* the list the tiers allow: every Critical and High failure, the first three
\* Medium ones, and the first two Low ones when nothing Critical or High failed
TierFiltered(results) ==
    FailuresAt(results, {Critical, High})
    \o FirstOf(FailuresAt(results, {Medium}), 3)
    \o (IF FailuresAt(results, {Critical, High}) = << >>
        THEN FirstOf(FailuresAt(results, {Low}), 2) ELSE << >>)

\* C17: without max_errors get_display_errors returns only failed results, in
\* sorted order: every Critical and High failure, the first three Medium
\* failures at most, and the first two Low failures at most and only when no
\* Critical or High failure exists.  One Critical, five Medium and five Low
\* failures give exactly 4 entries, also for every max_errors >= 4.
C17_DisplayTiers ==
    fn_out.op = "display" =>
        /\ fn_out.max_errors = None =>
               /\ fn_out.errors = TierFiltered(fn_results)
               /\ \A i \in 1..Len(fn_out.errors) : ~fn_out.errors[i].passed
               /\ \A i, j \in 1..Len(fn_out.errors) :
                      i < j => fn_out.errors[i].priority <= fn_out.errors[j].priority
        /\ ( /\ Len(FailuresAt(fn_results, {Critical})) = 1
             /\ Len(FailuresAt(fn_results, {High})) = 0
             /\ Len(FailuresAt(fn_results, {Medium})) = 5
             /\ Len(FailuresAt(fn_results, {Low})) = 5
             /\ \/ fn_out.max_errors = None
                \/ Unwrap(fn_out.max_errors) >= 4 ) =>
               Len(fn_out.errors) = 4

C17_Witness ==
    /\ fn_out.op = "display"
    /\ fn_out.max_errors = None
    /\ Len(FailuresAt(fn_results, {Critical})) = 1
    /\ Len(FailuresAt(fn_results, {High})) = 0
    /\ Len(FailuresAt(fn_results, {Medium})) = 5
    /\ Len(FailuresAt(fn_results, {Low})) = 5
    /\ Len(fn_out.errors) = 4

\* C18: with max_errors = m get_display_errors returns at most m entries,
\* the first m of the tier-filtered list, for every m >= 0, m = 0 included.
C18_MaxErrorsCaps ==
    (fn_out.op = "display" /\ IsSome(fn_out.max_errors)) =>
        /\ Len(fn_out.errors) <= Unwrap(fn_out.max_errors)
        /\ fn_out.errors = FirstOf(TierFiltered(fn_results), Unwrap(fn_out.max_errors))

\* what each validator of an engine reports for a partial input, in
\* registration order
PartialReports(e, x, cursor) ==
    [i \in 1..Len(e.validators) |-> PartialIn(e.validators[i], x, cursor)]

\* what partial_validate has to make of the reports
Aggregates(reports, partial) ==
    LET positions == {Unwrap(reports[i].first_error_pos) :
                          i \in {k \in 1..Len(reports) : IsSome(reports[k].first_error_pos)}}
        given == SelectSeq(reports, LAMBDA r : IsSome(r.suggestion))
    IN /\ (partial.first_error_pos = None) <=> (positions = {})
       /\ positions # {} =>
              /\ Unwrap(partial.first_error_pos) \in positions
              /\ \A q \in positions : Unwrap(partial.first_error_pos) <= q
       /\ partial.can_continue <=>
              ~\E i \in 1..Len(reports) : ~reports[i].can_continue
       /\ (partial.suggestion = None) <=> (given = << >>)
       /\ given # << >> =>
              LET joined == Unwrap(partial.suggestion)
              IN /\ Len(joined) = 2 * Len(given) - 1
                 /\ \A k \in 1..Len(given) : joined[2 * k - 1] = Unwrap(given[k].suggestion)
                 /\ \A k \in 1..(Len(given) - 1) : joined[2 * k] = Msg("; ", << >>, << >>)

\* C19: partial_validate asks every validator; first_error_pos is the least
\* position reported (None iff none), can_continue is false iff a validator
\* reports it cannot continue, suggestion is the suggestions joined with "; "
\* in registration order (None iff none); the cache is neither read (the
\* engine without a cache answers the same) nor changed.
C19_PartialValidateAggregates ==
    [][ret'.op = "partial_validate" =>
           /\ Aggregates(PartialReports(eng, ret'.input, Len(ret'.input)), ret'.partial)
           /\ ret_nc'.partial = ret'.partial
           /\ eng' = eng
           /\ eng_nc' = eng_nc]_vars

C19_Witness ==
    /\ ret.op = "partial_validate"
    /\ ret.input = << "h", "e", "l", "l", "o" >>
    /\ eng.validators = << MaxLengthV(2, High), MinLengthV(5, Medium), BlockingV(1) >>
    /\ eng.cache # Some(EmptyMap)
    /\ ret.partial.first_error_pos = Some(1)
    /\ ~ret.partial.can_continue
    /\ IsSome(ret.partial.suggestion)

\* C20 as stated: in the choice menu of a non-empty list the highlighted
\* index stays within [0, len-1), the last item excluded, after any keys.
C20_IndexInHalfOpenRange ==
    (MenuPath /\ pc = "navigating" /\ Len(choices) > 0) =>
        /\ current_index >= 0
        /\ current_index < Len(choices) - 1

\* C20: in the choice menu of a non-empty list Up decreases the highlighted
\* index by one unless it is 0, Down increases it by one unless it is len-1,
\* so the index stays within [0, len-1], the last item included; neither key
\* changes the selection.
C20_NavigationClamped ==
    [][(MenuPath /\ pc = "navigating" /\ pc' = "navigating") =>
           /\ Len(choices) > 0 =>
                  /\ current_index \in 0..(Len(choices) - 1)
                  /\ current_index' \in 0..(Len(choices) - 1)
           /\ key' = "Up" =>
                  /\ current_index' = IF current_index = 0 THEN 0 ELSE current_index - 1
                  /\ selected_choices' = selected_choices
           /\ key' = "Down" =>
                  /\ Len(choices) > 0 =>
                         current_index' = IF current_index = Len(choices) - 1
                                          THEN current_index ELSE current_index + 1
                  /\ selected_choices' = selected_choices]_vars

C20_Witness ==
    /\ MenuPath
    /\ pc = "navigating"
    /\ key = "Down"
    /\ Len(choices) > 1
    /\ current_index = Len(choices) - 1
    /\ \E i \in 1..Len(selected_choices) : selected_choices[i]

\* C21: in the choice menu Space flips the selection of the highlighted item
\* and of nothing else when more than one selection is allowed (max > 1), and
\* leaves the selection unchanged when it is not; the highlighted index stays.
C21_SpaceTogglesHighlighted ==
    [][(MenuPath /\ pc = "navigating" /\ pc' = "navigating" /\ key' = "Space") =>
           /\ current_index' = current_index
           /\ Len(selected_choices') = Len(selected_choices)
           /\ max_choices > 1 =>
                  /\ current_index + 1 \in 1..Len(selected_choices)
                  /\ \A i \in 1..Len(selected_choices) :
                         selected_choices'[i] =
                             IF i = current_index + 1 THEN ~selected_choices[i]
                             ELSE selected_choices[i]
           /\ ~(max_choices > 1) => selected_choices' = selected_choices]_vars

C21_Witness ==
    /\ MenuPath
    /\ pc = "navigating"
    /\ key = "Space"
    /\ max_choices > 1
    /\ current_index > 0
    /\ ~selected_choices[current_index + 1]
    /\ \E i \in 1..Len(selected_choices) : selected_choices[i]

\* the non-empty entries an input names between its commas
NamedEntries(text) == TrimmedNonEmpty(Split(text, Comma))

\* C22 as stated: an input naming more comma-separated entries than max
\* fails with "At most <max> choice(s) allowed"; so does "red,green" with
\* [red, green, blue], min = 1, max = 1.
C22_TooManyEntriesRejected ==
    \A i \in 1..Len(fn_out.validators) :
        (/\ fn_out.op = "validate"
         /\ fn_out.validators[i].kind = "Choices"
         /\ Len(NamedEntries(fn_args.input)) > fn_out.validators[i].max_choices) =>
            /\ ~fn_out.results[i].passed
            /\ fn_out.results[i].message =
                   Some(Msg("At most {} choice(s) allowed",
                            << fn_out.validators[i].max_choices >>, << >>))

\* C22: with choices [red, green, blue], min = 1, max = 1, "red" passes, "RED"
\* passes in case-insensitive mode, and "red,green" is taken as one entry and
\* fails as an invalid choice.  With max >= 2 an input naming more
\* comma-separated entries than max, and not fewer than min, fails with
\* "At most <max> choice(s) allowed".
C22_ChoiceCounts ==
    \A i \in 1..Len(fn_out.validators) :
        (fn_out.op = "validate" /\ fn_out.validators[i].kind = "Choices") =>
            LET v == fn_out.validators[i]
                r == fn_out.results[i]
                entries == Len(NamedEntries(fn_args.input))
            IN /\ (v.choices = << Red, Green, Blue >> /\ v.min_choices = 1
                   /\ v.max_choices = 1) =>
                      /\ fn_args.input = Red => r.passed
                      /\ (fn_args.input = << "R", "E", "D" >> /\ ~v.case_sensitive) =>
                             r.passed
                      /\ fn_args.input = Red \o << Comma >> \o Green =>
                             /\ ~r.passed
                             /\ r.message =
                                    Some(Msg("Invalid choice(s): {}. Valid options: {}",
                                             << >>,
                                             << Red \o << Comma >> \o Green,
                                                Red, Green, Blue >>))
               /\ (v.max_choices >= 2 /\ entries > v.max_choices
                   /\ entries >= v.min_choices) =>
                      /\ ~r.passed
                      /\ r.message = Some(Msg("At most {} choice(s) allowed",
                                              << v.max_choices >>, << >>))

C22_Witness ==
    /\ fn_out.op = "validate"
    /\ Len(fn_out.validators) = 1
    /\ fn_out.validators[1].kind = "Choices"
    /\ fn_out.validators[1].min_choices = 1
    /\ fn_out.validators[1].max_choices = 1
    /\ fn_args.input = Red \o << Comma >> \o Green
    /\ ~fn_out.results[1].passed

\* C23: each key event acts on the buffer it finds.  A character key inserts
\* the character at the cursor, the text before and after it keeping its
\* order, and advances the cursor by one; Backspace deletes the character
\* just before the cursor and moves the cursor back by one, and does nothing
\* at offset 0.  A buffer brought to the MaxLength bound that way is accepted
\* by Enter on the first attempt.
C23_KeysEditAtCursor ==
    [][(EditorPath /\ pc = "editing") =>
           /\ key' \in TypeChars =>
                  /\ cursor_pos' = cursor_pos + 1
                  /\ Len(input') = Len(input) + 1
                  /\ \A i \in 1..cursor_pos : input'[i] = input[i]
                  /\ input'[cursor_pos + 1] = key'
                  /\ \A i \in (cursor_pos + 1)..Len(input) : input'[i + 1] = input[i]
           /\ (key' = "Backspace" /\ cursor_pos > 0) =>
                  /\ cursor_pos' = cursor_pos - 1
                  /\ Len(input') = Len(input) - 1
                  /\ \A i \in 1..(cursor_pos - 1) : input'[i] = input[i]
                  /\ \A i \in (cursor_pos + 1)..Len(input) : input'[i - 1] = input[i]
           /\ (key' = "Backspace" /\ cursor_pos = 0) =>
                  /\ input' = input
                  /\ cursor_pos' = 0
           /\ (/\ key' = "Enter"
               /\ ~args.required /\ args.min_length = None /\ IsSome(args.max_length)
               /\ input # << >>
               /\ Len(input) <= Unwrap(args.max_length)) =>
                  /\ result' = "Ok"
                  /\ value' = input
                  /\ attempts' = attempts]_vars

\* a Backspace has just cut a longer buffer down to the MaxLength bound
C23_Witness ==
    /\ EditorPath
    /\ pc = "editing"
    /\ key = "Backspace"
    /\ args.max_length = Some(2)
    /\ Len(input) = 2
    /\ cursor_pos = 2
    /\ attempts = 0

\* C24: Enter on an empty buffer with a default configured validates the
\* default and returns it when it is valid; Enter on a non-empty buffer never
\* substitutes the default; without a default an empty buffer is validated as
\* the empty string.
C24_DefaultOnEmptyEnter ==
    [][(EditorPath /\ pc = "editing" /\ key' = "Enter") =>
           /\ (input = << >> /\ IsSome(args.default)) =>
                  /\ input' = Unwrap(args.default)
                  /\ EngineValid(engine, Unwrap(args.default)) =>
                         (result' = "Ok" /\ value' = Unwrap(args.default))
                  /\ ~EngineValid(engine, Unwrap(args.default)) => result' # "Ok"
           /\ input # << >> =>
                  /\ input' = input
                  /\ result' = "Ok" => value' = input
                  /\ (result' = "Ok") <=> EngineValid(engine, input)
           /\ (input = << >> /\ args.default = None) =>
                  /\ input' = << >>
                  /\ result' = "Ok" => value' = << >>
                  /\ (result' = "Ok") <=> EngineValid(engine, << >>)]_vars

\* the default was returned for a buffer nothing had been written for
C24_Witness ==
    /\ EditorPath
    /\ key = "Enter"
    /\ result = "Ok"
    /\ IsSome(args.default)
    /\ value = Unwrap(args.default)
    /\ validation_rules # << >>
    /\ ~args.mask
    /\ shown = << >>

\* C25: when a default value is configured and the choice menu is used, the
\* menu opens with exactly the choices the default names selected.
C25_DefaultPreselected ==
    [][(pc = "start" /\ pc' = "navigating" /\ IsSome(args.default)) =>
           \A i \in 1..Len(choices) :
               selected_choices'[i] <=>
                   \E k \in 1..Len(NamedEntries(Unwrap(args.default))) :
                       NamedEntries(Unwrap(args.default))[k] = choices[i]]_vars

\* C26: with a malformed validator configuration the run ends with a
\* non-zero exit before any interactive session starts: raw mode is never
\* entered, no input is ever read from the user, and no validation happens
\* with a malformed validator.
C26_MalformedRejectedFirst ==
    build_validation_engine_fails(validation_rules) =>
        /\ ~raw
        /\ pc \in {"start", "exit"}
        /\ value = << >>
        /\ pc = "exit" => (exit_code # 0 /\ result # "Ok")

\* C27: without cursor control the program never enters raw mode and never
\* runs the line editor or the choice menu: it reads one line.  With cursor
\* control it starts the line editor or the choice menu, unless building the
\* session fails, and never the one-line fallback.
C27_FallbackWithoutCursorControl ==
    [][/\ ~cursor_control =>
              /\ ~raw'
              /\ pc' \notin {"editing", "navigating"}
              /\ key' = "none"
              /\ (pc = "start" /\ pc' # "start") =>
                     /\ pc' = "output"
                     /\ \E line \in SimpleLines : value' = Trim(line)
       /\ (cursor_control /\ pc = "start" /\ pc' # "start") =>
              \/ pc' = "editing" /\ find_choice_validator = None /\ raw'
              \/ pc' = "navigating" /\ find_choice_validator # None /\ raw'
              \/ pc' = "exit" /\ result' \in {"Io", "Regex"}]_vars

C27_Witness ==
    /\ ~cursor_control
    /\ pc = "output"
    /\ result = "Ok"
    /\ value = << "a", "a" >>
    /\ ~raw
    /\ key = "none"

\* C28: a priority override given in a validator's configuration is the
\* priority its failing results carry, for every validator kind.
C28_PriorityOverrideCarried ==
    fn_out.op = "validate" =>
        \A i \in 1..Len(fn_out.rules) :
            (IsSome(fn_out.rules[i].priority) /\ ~fn_out.results[i].passed) =>
                fn_out.results[i].priority = Unwrap(fn_out.rules[i].priority)

\* the number of selected items of the menu
SelectedNow == Cardinality({i \in 1..Len(selected_choices) : selected_choices[i]})

\* C29 as stated: while the menu waits for a key a message is set iff the
\* number of selected items is outside [min, max], "At least <min> choice(s)
\* required" when below min and "At most <max> choice(s) allowed" when above
\* max.
C29_MessageMatchesBounds ==
    (MenuPath /\ pc = "navigating") =>
        /\ (validation_error # None) <=>
               (SelectedNow < min_choices \/ SelectedNow > max_choices)
        /\ SelectedNow < min_choices =>
               validation_error =
                   Some(Msg("At least {} choice(s) required", << min_choices >>, << >>))
        /\ SelectedNow > max_choices =>
               validation_error =
                   Some(Msg("At most {} choice(s) allowed", << max_choices >>, << >>))

\* C29: while the menu waits for a key a message is set iff the number of
\* selected items is outside [min, max]: "At least <min> choice(s) required"
\* when below min, and otherwise "At most <max> choice(s) allowed" when above
\* max; so a rejected submit leaves the matching message and a selection
\* within bounds shows none.
C29_MessageMatchesBoundsMinFirst ==
    (MenuPath /\ pc = "navigating") =>
        /\ (validation_error # None) <=>
               (SelectedNow < min_choices \/ SelectedNow > max_choices)
        /\ SelectedNow < min_choices =>
               validation_error =
                   Some(Msg("At least {} choice(s) required", << min_choices >>, << >>))
        /\ (SelectedNow >= min_choices /\ SelectedNow > max_choices) =>
               validation_error =
                   Some(Msg("At most {} choice(s) allowed", << max_choices >>, << >>))

\* a submit has just been rejected for too many selected items
C29_Witness ==
    /\ MenuPath
    /\ pc = "navigating"
    /\ key = "Enter"
    /\ SelectedNow >= min_choices
    /\ SelectedNow > max_choices
    /\ validation_error =
           Some(Msg("At most {} choice(s) allowed", << max_choices >>, << >>))

\* get_display_errors(buffer, Some(10)) of the prompt's engine
DisplayErrorsOf(buf) ==
    filter_display_errors(
        ValidationSummary_new(buf, EngineResults(engine, buf)).validation_results,
        Some(10))

\* C30: after every key event the line editor handles without ending the
\* session (buffer mutations and rejected submits included) the error block
\* shows exactly get_display_errors(buffer), masked input included.
C30_ErrorBlockFollowsBuffer ==
    [][(/\ EditorPath
        /\ pc = "editing"
        /\ pc' = "editing"
        /\ key' \notin {"Resize", "none"}) =>
           error_block' = DisplayErrorsOf(input')]_vars

\* C31: each menu redraw moves the cursor up by exactly the rows the previous
\* draw went down from the prompt line, so every draw starts on the prompt
\* line, also when the constraint message appears or disappears between draws.
C31_RedrawStartsOnPromptLine ==
    (MenuPath /\ pc = "navigating") =>
        /\ draw_start = 0
        /\ cursor_row =
               2 + Len(choices) + (IF validation_error # None THEN 1 ELSE 0)

\* a redraw after which the constraint message drawn before is gone
C31_Witness ==
    /\ MenuPath
    /\ pc = "navigating"
    /\ key = "Space"
    /\ min_choices >= 1
    /\ validation_error = None
    /\ draw_start = 0

\* C32: in the line editor 0 <= cursor_pos <= number of characters of the
\* buffer after any sequence of keys; Left, Right, Home and End change only
\* cursor_pos (by -1, by +1, to 0, to the end, clamped) and leave the buffer
\* and the attempt counter unchanged.
C32_CursorWithinBuffer ==
    [][/\ EditorPath => (0 <= cursor_pos' /\ cursor_pos' <= Len(input'))
       /\ (EditorPath /\ pc = "editing" /\ key' \in {"Left", "Right", "Home", "End"}) =>
              /\ input' = input
              /\ attempts' = attempts
              /\ pc' = "editing"
              /\ cursor_pos' =
                     CASE key' = "Left" -> IF cursor_pos > 0 THEN cursor_pos - 1 ELSE 0
                       [] key' = "Right" -> IF cursor_pos < Len(input) THEN cursor_pos + 1
                                            ELSE Len(input)
                       [] key' = "Home" -> 0
                       [] key' = "End" -> Len(input)]_vars

\* Right was pressed with the cursor already at the end of a non-empty buffer
C32_Witness ==
    /\ EditorPath
    /\ pc = "editing"
    /\ key = "Right"
    /\ input # << >>
    /\ cursor_pos = Len(input)

\* characters from+1 .. to of s are all whitespace (ws) or all non-whitespace
RunOf(s, from, to, ws) == \A i \in (from + 1)..to : (s[i] = " ") = ws

\* C33: the kill keys change only buffer and cursor: Ctrl+K removes exactly
\* the characters at and after the cursor and keeps the cursor; Ctrl+U removes
\* exactly the characters before the cursor and puts the cursor at 0; Ctrl+W
\* removes the whitespace run and then the non-whitespace run just before the
\* cursor, puts the cursor at the start of the removed span and keeps the text
\* after the cursor; Delete removes exactly the character at the cursor.
C33_KillKeys ==
    [][(EditorPath /\ pc = "editing"
            /\ key' \in {"CtrlK", "CtrlU", "CtrlW", "Delete"}) =>
          /\ pc' = "editing"
          /\ attempts' = attempts
          /\ key' = "CtrlK" =>
                 /\ input' = SubSeq(input, 1, cursor_pos)
                 /\ cursor_pos' = cursor_pos
          /\ key' = "CtrlU" =>
                 /\ input' = SubSeq(input, cursor_pos + 1, Len(input))
                 /\ cursor_pos' = 0
          /\ key' = "CtrlW" =>
                 /\ cursor_pos' <= cursor_pos
                 /\ input' = SubSeq(input, 1, cursor_pos')
                                 \o SubSeq(input, cursor_pos + 1, Len(input))
                 /\ \E m \in cursor_pos'..cursor_pos :
                        /\ RunOf(input, m, cursor_pos, TRUE)
                        /\ RunOf(input, cursor_pos', m, FALSE)
                        /\ m = 0 \/ input[m] # " "
                        /\ cursor_pos' = 0 \/ input[cursor_pos'] = " "
          /\ key' = "Delete" =>
                 /\ cursor_pos' = cursor_pos
                 /\ input' = IF cursor_pos < Len(input)
                             THEN SubSeq(input, 1, cursor_pos)
                                      \o SubSeq(input, cursor_pos + 2, Len(input))
                             ELSE input]_vars

\* Ctrl+W has cut a span that ends in the middle of the buffer
C33_Witness ==
    /\ EditorPath
    /\ pc = "editing"
    /\ key = "CtrlW"
    /\ cursor_pos > 0
    /\ cursor_pos < Len(input)
    /\ input[cursor_pos] = " "

\* C34: in the line editor Ctrl+D cancels the session only when the buffer is
\* empty; with a non-empty buffer it leaves buffer, cursor and attempt counter
\* unchanged and the session stays in editing.
C34_CtrlDOnlyOnEmpty ==
    [][(EditorPath /\ pc = "editing" /\ key' = "CtrlD") =>
          IF input = << >>
          THEN pc' = "exit" /\ result' = "Interrupted"
          ELSE /\ pc' = "editing"
               /\ result' = "none"
               /\ input' = input
               /\ cursor_pos' = cursor_pos
               /\ attempts' = attempts]_vars

\* Ctrl+D was pressed on a non-empty buffer and the editor still waits
C34_Witness ==
    /\ EditorPath
    /\ pc = "editing"
    /\ key = "CtrlD"
    /\ input # << >>

\* C35: validators never abort the process: for every input, strings with
\* multi-byte characters included, validate and partial_validate of every
\* validator return a result value instead of panicking.
C35_ValidatorsNeverPanic ==
    fn_out.op = "partial_validate" =>
        \A i \in 1..Len(fn_out.partials) : ~fn_out.partials[i].panicked

\* the selections the validator reads out of the text: the whole trimmed text
\* when at most one choice is allowed, else the non-empty trimmed pieces
SelectionsOf(v, text) ==
    IF v.max_choices = 1 THEN << Trim(text) >> ELSE NamedEntries(text)

\* case folding when the validator compares case-insensitively
Folded(v, s) ==
    IF v.case_sensitive THEN s
    ELSE [k \in 1..Len(s) |->
             CASE s[k] = "R" -> "r" [] s[k] = "G" -> "g" [] s[k] = "E" -> "e"
               [] s[k] = "D" -> "d" [] OTHER -> s[k]]

\* C36: ChoiceValidator.validate passes iff the number of parsed selections is
\* within [min, max], no option is selected twice (compared case-folded when
\* case-insensitive) and every parsed selection matches a configured option;
\* in every other case it returns a failure carrying the validator's priority.
C36_ChoiceValidatePassesIff ==
    \A i \in 1..Len(fn_out.validators) :
        (fn_out.op = "validate" /\ fn_out.validators[i].kind = "Choices") =>
            LET v == fn_out.validators[i]
                r == fn_out.results[i]
                sel == SelectionsOf(v, fn_args.input)
                matches(e) == \E c \in 1..Len(v.choices) :
                                  Folded(v, v.choices[c]) = Folded(v, e)
            IN /\ r.passed <=>
                      /\ v.min_choices <= Len(sel)
                      /\ Len(sel) <= v.max_choices
                      /\ \A j \in 1..Len(sel) : matches(sel[j])
                      /\ \A j, k \in 1..Len(sel) :
                             j < k => Folded(v, sel[j]) # Folded(v, sel[k])
               /\ ~r.passed => r.priority = v.priority
               /\ r.rule_name = "choice"

\* a failure for one option named twice in different case
C36_Witness ==
    /\ fn_out.op = "validate"
    /\ fn_args.input = Red \o << Comma, "R", "E", "D" >>
    /\ \E i \in 1..Len(fn_out.validators) :
           /\ fn_out.validators[i].kind = "Choices"
           /\ ~fn_out.validators[i].case_sensitive
           /\ fn_out.validators[i].max_choices >= 2
           /\ ~fn_out.results[i].passed
           /\ fn_out.results[i].message =
                  Some(Msg("Duplicate choices not allowed: {}", << >>, << Red >>))

\* C37: whenever the line editor waits for a key, the text shown in the input
\* area corresponds to the buffer: the buffer itself, or one mask glyph per
\* buffer character when the input is masked.
C37_ShownMatchesBuffer ==
    (EditorPath /\ pc = "editing") =>
        shown = IF args.mask THEN [k \in 1..Len(input) |-> "*"] ELSE input

\* C38: every ValidationResult a validator's validate returns carries that
\* validator's priority, whether the result passed or failed.
C38_ResultCarriesValidatorPriority ==
    fn_out.op = "validate" =>
        \A i \in 1..Len(fn_out.validators) :
            fn_out.results[i].priority = fn_out.validators[i].priority

\* C39: the choice menu handles every key event without aborting, for every
\* configured choice list, the empty one included: Up, Down, Space and Enter
\* never index outside the list and the highlighted index stays in range.
C39_MenuNeverAborts ==
    MenuPath =>
        /\ result # "Panic"
        /\ (pc = "navigating" /\ selected_choices # << >>) =>
               current_index + 1 \in DOMAIN selected_choices

\* C40: with neither a minimum nor a maximum configured min_choices = 1 and
\* max_choices = 1; with only a minimum, max_choices is the number of
\* available choices; a configured maximum is used as it is.
C40_ChoiceCountDefaults ==
    \A i \in 1..Len(fn_out.validators) :
        (fn_out.op # "none" /\ fn_out.validators[i].kind = "Choices") =>
            LET a == fn_args.a
                v == fn_out.validators[i]
                p == fn_out.rules[i].parameters
            IN /\ p.min_choices = v.min_choices
               /\ p.max_choices = v.max_choices
               /\ (a.min_choices = << >> /\ a.max_choices = << >>) =>
                      (v.min_choices = 1 /\ v.max_choices = 1)
               /\ (a.min_choices # << >> /\ a.max_choices = << >>) =>
                      /\ v.min_choices = a.min_choices[1]
                      /\ v.max_choices = Len(v.choices)
               /\ a.max_choices # << >> => v.max_choices = a.max_choices[1]
               /\ a.min_choices = << >> => v.min_choices = 1

\* only a minimum was configured and all three choices were accepted
C40_Witness ==
    /\ fn_out.op = "validate"
    /\ fn_args.a.min_choices = << 2 >>
    /\ fn_args.a.max_choices = << >>
    /\ fn_args.input = Red \o << Comma >> \o Green \o << Comma >> \o Blue
    /\ Len(fn_out.validators) = 1
    /\ fn_out.validators[1].max_choices = 3
    /\ fn_out.results[1].passed


====
